---- MODULE Spec2Model ----
(***************************************************************************)
(* Model of the rokaru batch conversion scheduler.                         *)
(*                                                                         *)
(* The React state of FileConversionProvider (the task collection and      *)
(* maxConcurrency) is the state; every functional setTasks updater is one  *)
(* atomic step, every effect evaluation (the queue management effect, the  *)
(* TaskRunner effect) is one atomic step that reads the committed state    *)
(* and applies the updaters it enqueues, and every asynchronous routine of *)
(* useFFmpegEngine (processFile, loadWithRetry, extractAudio) is a process *)
(* per task id whose resumptions interleave freely with everything else.   *)
(* The asynchronous routines belong to the task id, not to the collection: *)
(* they keep running after removeTask.                                     *)
(*                                                                         *)
(* Spec takes processFile and loadWithRetry as one step each.  SpecFifo is *)
(* Spec with three files and the limit fixed at 1.  SpecIngest takes       *)
(* opfs.saveFile apart (open, exclusive handle or writable stream, chunk   *)
(* writes, close, the one retry) over the shared directory; SpecLoad takes *)
(* an engine load apart (cache lookup, fetch, cache write, ffmpeg.load,    *)
(* the attempts); the Cache API itself is taken to work.  SpecRace is      *)
(* SpecLoad with the timeout of each attempt: an attempt that loses the    *)
(* race against the timeout is not cancelled, what it had started keeps    *)
(* running beside the attempts that follow it.                             *)
(*                                                                         *)
(* Further specifications follow one part of the program each, beside the  *)
(* steps of Spec or on its own: SpecProgress the progress events of the    *)
(* engine, SpecExit the exit code of exec, SpecAdd addTask on files of any *)
(* size and type, SpecGlobal the provider from its mount with the          *)
(* initialization routine still running, SpecLog addLog and clearLogs with *)
(* the real limits of the logs, SpecBatch the two batch handlers applied   *)
(* to every collection of tasks.  In every other specification the logs    *)
(* are left out.  SpecDone follows the runs of extractAudio up to 'done',  *)
(* SpecBlob the blob URLs of useCleanup across the unmount of a task's     *)
(* runner, SpecErr the error display and its timers, SpecSize, SpecType    *)
(* and SpecExt the pure functions validateFileSize, validateFileType and   *)
(* getOriginalExtension on bounded inputs, SpecOpfs one call of saveFile,  *)
(* readFile, deleteFile or clearAll of OPFSStorage with its root, its      *)
(* initPromise and the retry, SpecInit init() under several callers,       *)
(* SpecProbe the metadata probe of a task beside its extraction,           *)
(* SpecActive activeTaskId and its writers.  SpecFair is Spec with the     *)
(* queue management effect run whenever it has something to admit, and     *)
(* SpecAdmit applies that effect to every collection of tasks.             *)
(***************************************************************************)
EXTENDS Integers, Sequences, FiniteSets, TLC

\* ---------------------------------------------------------------- bounds
\* Number of files the user adds in one session (ids 1..MaxTasks).
MaxTasks == 2
\* Number of files in the first-in-first-out scenario (tasks A, B, C).
FifoTasks == 3
\* Largest value the concurrency slider is moved to (the slider allows 1..6).
MaxLimit == 2

\* Largest number of chunks a file is saved in (a file of n chunks is between
\* (n-1)*10 MB and n*10 MB long).
MaxChunks == 2

\* Number of files whose engine load is followed through its timeouts.
RaceTasks == 1

\* Largest collection the batch handlers are applied to.
MaxBatch == 3

\* Number of files whose log is followed, and number of addLog calls made.
LogTasks == 1

MaxLogCalls == 502

\* ------------------------------------------------------ program constants
\* min of the concurrency sliders
MinConcurrency == 1

\* loadWithRetry = async (retries = 3, timeout = 30000)
retries == 3

\* addLog: t.logs.slice(-199)
keepTaskLogs == 199

\* addLog: g.slice(-499)
keepGlobalLogs == 499

MaxErrs == 2

\* the ApplicationError instances, by their id
ErrIds == {"e" \o ToString(n) : n \in 1..MaxErrs}

\* Number of concurrent callers of opfs.init().
MaxCallers == 3

\* Number of times the body of init() may start.
MaxAttempts == 2

Callers == 1..MaxCallers

\* Number of fetchMetadata runs that go past the metadata test, per task.
MaxProbes == 2

\* activeTaskId === null
NoTask == 0

Ids == 1..(IF FifoTasks > MaxTasks
           THEN (IF MaxBatch > FifoTasks THEN MaxBatch ELSE FifoTasks)
           ELSE (IF MaxBatch > MaxTasks THEN MaxBatch ELSE MaxTasks))

NULL == "null"

VARIABLES
    tasks,           \* useState<ConversionTask[]>: sequence of task records
    maxConcurrency,  \* useState(parseInt(localStorage.maxConcurrency || '3'))
    nextId,          \* ids handed out so far + 1 (ids are never reused)
    ingest,          \* per id: processFile  "idle" | "running" | "saved" | "failed"
    engine,          \* per id: loadWithRetry "idle" | "loading" | "loaded" | "failed"
    runs,            \* per id: extractAudio invocations still in flight
    qorder,          \* history: ids currently 'queued', in the order they entered 'queued'
    stale,           \* history: a routine of an already removed task has called back
    store,           \* the origin-private directory: filename -> stored chunks, or NoFile
    save,            \* per id: where opfs.saveFile stands for the task's input file
    got,             \* per id: what the task's last opfs.readFile returned
    load,            \* per id: where loadWithRetry stands (step and attempt)
    cached,          \* Cache 'rokaru-core-v1' holds the engine binary
    fetchCount,      \* history: network fetches of the engine binary issued
    putCount,        \* history: cache.put calls for the engine binary completed
    orphan,          \* per id and attempt: where the attempt stands after its timeout
    globalStatus,    \* useState<AppStatus>('init'): 'init' | 'idle' | 'processing' | 'error'
    initRun,         \* the initialization effect of the provider: "running" | "over"
    alert,           \* what the last alert(...) of addTask showed, NULL before the first
    supported,       \* per id: validateVideoFile accepts the task's file
    taskLogs,        \* per id: ConversionTask.logs, an entry being its number among the task's
    globalLogs,      \* useState<GlobalLogEntry[]>, an entry being its number among all
    sent,            \* history, per id: addLog calls that found the task
    progress,        \* per id: ConversionTask.progress
    exited,          \* history, per id: the last exec ended non-zero and nobody queued the task since
    execDone,        \* per id: runs whose exec has returned 0 and that have not yet written 'done'
    made,            \* per id: blob URLs the task's hook has created, numbered 1..made[id]
    urlsRef,         \* per id: urlsRef.current of the task's useCleanup
    revoked,         \* per id: the URLs URL.revokeObjectURL was called on
    cleaned,         \* per id: the cleanup of the hook's effect has run (the hook unmounted)
    error,           \* useErrorDisplay: the id of the displayed ApplicationError, NULL for null
    known,           \* per error id: "none" before the instance exists, then "rec" or "fatal" (its recoverable field)
    timers,          \* the pending setTimeout callbacks of showError: [id, due]
    now,             \* the time in seconds
    shownAt,         \* history: the time of the last showError
    fired,           \* history: the ids whose timer has run
    fileSize,        \* the size of the file given to validateFileSize
    sizeResult,      \* <<what validateFileSize returned for it>>, <<>> before the call
    fileHead,        \* the first bytes of the file given to validateFileType (file.slice(0, 16))
    fileType,        \* its file.type, as a sequence of characters
    typeResult,      \* <<what validateFileType returned for it>>, <<>> before the call
    selectedFormat,  \* task.selectedFormat of the extraction looked at
    metadata,        \* its task.metadata: [probed, streams]
    outputExt,       \* <<the outputExt extractAudio computed>>, <<>> before
    root,            \* OPFSStorage.root is a directory handle (FALSE: null)
    initPromise,     \* OPFSStorage.initPromise: "null", or the state of the promise it holds: "pending", "resolved", "rejected"
    call,            \* the storage call looked at: [op, pc, isRetry, passes, err, first]
    initCall,        \* per caller of opfs.init(): where its call stands
    attempts,        \* the runs of the body of init(), in the order they started
    current,         \* the run whose promise initPromise holds (0: none)
    requested,       \* calls of navigator.storage.getDirectory() so far
    probe,           \* per id: triggerProbe, isMetadataLoading, metadata attached, showMetadata, hit (history: a request was answered from the attached metadata), and the fetchMetadata runs: reading the stored file, holding an engine command, started so far
    activeTaskId     \* useState<string | null>(null): the id of the active task, NoTask for null

schedVars == <<tasks, maxConcurrency, nextId, ingest, engine, runs, qorder, stale>>

ingestVars == <<store, save, got>>

loadVars == <<load, cached, fetchCount, putCount, orphan>>

appVars == <<globalStatus, initRun, alert, supported>>

logVars == <<taskLogs, globalLogs, sent>>

convVars == <<progress, exited>>

doneVars == <<execDone>>

blobVars == <<made, urlsRef, revoked, cleaned>>

errVars == <<error, known, timers, now, shownAt, fired>>

sizeVars == <<fileSize, sizeResult>>

typeVars == <<fileHead, fileType, typeResult>>

extVars == <<selectedFormat, metadata, outputExt>>

opfsVars == <<root, initPromise, call>>

initVars == <<initCall, attempts, current, requested>>

probeVars == <<probe>>

activeVars == <<activeTaskId>>

sideVars == <<doneVars, blobVars, errVars, sizeVars, typeVars, extVars, opfsVars, initVars, probeVars, activeVars>>

\* every side variable but those of the group
besideDone == <<blobVars, errVars, sizeVars, typeVars, extVars, opfsVars, initVars, probeVars, activeVars>>

\* every side variable but those of the group
besideBlob == <<doneVars, errVars, sizeVars, typeVars, extVars, opfsVars, initVars, probeVars, activeVars>>

\* every side variable but those of the group
besideErr == <<doneVars, blobVars, sizeVars, typeVars, extVars, opfsVars, initVars, probeVars, activeVars>>

\* every side variable but those of the group
besideSize == <<doneVars, blobVars, errVars, typeVars, extVars, opfsVars, initVars, probeVars, activeVars>>

\* every side variable but those of the group
besideType == <<doneVars, blobVars, errVars, sizeVars, extVars, opfsVars, initVars, probeVars, activeVars>>

\* every side variable but those of the group
besideExt == <<doneVars, blobVars, errVars, sizeVars, typeVars, opfsVars, initVars, probeVars, activeVars>>

\* every side variable but those of the group
besideOpfs == <<doneVars, blobVars, errVars, sizeVars, typeVars, extVars, initVars, probeVars, activeVars>>

\* every side variable but those of the group
besideInit == <<doneVars, blobVars, errVars, sizeVars, typeVars, extVars, opfsVars, probeVars, activeVars>>

\* every side variable but those of the group
besideProbe == <<doneVars, blobVars, errVars, sizeVars, typeVars, extVars, opfsVars, initVars, activeVars>>

\* every side variable but those of the group
besideActive == <<doneVars, blobVars, errVars, sizeVars, typeVars, extVars, opfsVars, initVars, probeVars>>

\* every side variable but those of opfsVars and initVars
besideStorage == <<doneVars, blobVars, errVars, sizeVars, typeVars, extVars, probeVars, activeVars>>

moreVars == <<appVars, logVars, convVars, sideVars>>

vars == <<schedVars, ingestVars, loadVars, moreVars>>

\* ------------------------------------------------------------- helpers
TaskIds(ts) == {ts[i].id : i \in DOMAIN ts}

HasTask(ts, id) == id \in TaskIds(ts)

TaskOf(ts, id) == ts[CHOOSE i \in DOMAIN ts : ts[i].id = id]

\* status of task id in collection ts, "absent" when the id is not in it
StatusOf(ts, id) == IF HasTask(ts, id) THEN TaskOf(ts, id).status ELSE "absent"

\* { ...t, ...updates }
Merge(t, updates) ==
    [f \in DOMAIN t |-> IF f \in DOMAIN updates THEN updates[f] ELSE t[f]]

\* the object addTask builds
newTask(id) ==
    [id |-> id, status |-> "reading", triggerExtract |-> FALSE,
     outputUrl |-> NULL, errorMessage |-> NULL]

\* mutant of updateTask: an update for an id that is not in the collection inserts it
updateTaskUpsert(ts, taskId, updates) ==
    IF taskId \in TaskIds(ts)
    THEN [i \in DOMAIN ts |-> IF ts[i].id = taskId THEN Merge(ts[i], updates) ELSE ts[i]]
    ELSE Append(ts, Merge(newTask(taskId), updates))

\* mutant of updateTask: the id comparison is lost and every task is merged
updateTaskEvery(ts, taskId, updates) ==
    [i \in DOMAIN ts |-> Merge(ts[i], updates)]

\* setTasks(prev => prev.map(t => t.id === taskId ? { ...t, ...updates } : t))
updateTask(ts, taskId, updates) ==
    [i \in DOMAIN ts |-> IF ts[i].id = taskId THEN Merge(ts[i], updates) ELSE ts[i]]

\* prev.filter(t => t.id !== taskId)
removeTaskFrom(ts, taskId) == SelectSeq(ts, LAMBDA t : t.id # taskId)

\* tasks.filter(t => t.status === 'processing').length
processingCount(ts) == Cardinality({i \in DOMAIN ts : ts[i].status = "processing"})

\* tasks.filter(t => t.status === 'queued')
queuedTasks(ts) == SelectSeq(ts, LAMBDA t : t.status = "queued")

\* history: drop the ids that left 'queued', append the ids that entered it
\* (several entering in one step were queued by one forEach, in collection order)
NextQOrder(old, ts) ==
    LET kept == SelectSeq(old, LAMBDA id : StatusOf(ts, id) = "queued")
        keptIds == {kept[i] : i \in DOMAIN kept}
        fresh == SelectSeq(ts, LAMBDA t : t.status = "queued" /\ t.id \notin keptIds)
    IN kept \o [i \in DOMAIN fresh |-> fresh[i].id]

\* ------------------------------------------------------- the stored files
\* value of a filename that has no entry in the directory (no task has id 0, so
\* no stored content equals it)
NoFile == <<<<0, 0>>>>

\* mutant of inputFilename: one fixed name for every task
inputFilenameFixed(id) == <<"input", ".mp4">>

\* const inputFilename = `input_${task.id}.mp4`
inputFilename(id) == <<"input_", id, ".mp4">>

Filenames == {inputFilename(id) : id \in Ids}

\* the file the user picked for task id, in CHUNK_SIZE pieces; the files differ
\* in content and in length
fileChunks(id) == ((id - 1) % MaxChunks) + 1

fileOf(id) == [k \in 1..fileChunks(id) |-> <<id, k>>]

\* accessHandle.write(bytes, { at: offset }): the bytes go to position k, what
\* the file held elsewhere stays
writeAt(content, k, chunk) ==
    [i \in 1..(IF Len(content) > k THEN Len(content) ELSE k) |->
        IF i = k THEN chunk ELSE content[i]]

\* ------------------------------------------------------------------ Init
InitState ==
    /\ tasks = <<>>
    /\ maxConcurrency \in MinConcurrency..MaxLimit
    /\ nextId = 1
    /\ ingest = [id \in Ids |-> "idle"]
    /\ engine = [id \in Ids |-> "idle"]
    /\ runs = [id \in Ids |-> 0]
    /\ qorder = <<>>
    /\ stale = FALSE
    /\ store = [f \in Filenames |-> NoFile]
    /\ save = [id \in Ids |-> [pc |-> "start", offset |-> 0, isRetry |-> FALSE]]
    /\ got = [id \in Ids |-> NoFile]
    /\ load = [id \in Ids |-> [pc |-> "match", attempt |-> 1]]
    /\ cached = FALSE
    /\ fetchCount = 0
    /\ putCount = 0
    /\ orphan = [id \in Ids |-> [a \in 1..retries |-> "none"]]
    /\ alert = NULL
    /\ supported = [id \in Ids |-> TRUE]
    /\ taskLogs = [id \in Ids |-> <<>>]
    /\ globalLogs = <<>>
    /\ sent = [id \in Ids |-> 0]
    /\ progress = [id \in Ids |-> 0]
    /\ exited = [id \in Ids |-> FALSE]
    /\ execDone = [id \in Ids |-> 0]
    /\ made = [id \in Ids |-> 0]
    /\ urlsRef = [id \in Ids |-> {}]
    /\ revoked = [id \in Ids |-> {}]
    /\ cleaned = [id \in Ids |-> FALSE]
    /\ error = NULL
    /\ known = [e \in ErrIds |-> "none"]
    /\ timers = {}
    /\ now = 0
    /\ shownAt = 0
    /\ fired = {}
    /\ fileSize = [mib |-> 0, rest |-> 0]
    /\ sizeResult = <<>>
    /\ fileHead = <<>>
    /\ fileType = <<>>
    /\ typeResult = <<>>
    /\ selectedFormat = "mp3"
    /\ metadata = [probed |-> FALSE, streams |-> <<>>]
    /\ outputExt = <<>>
    /\ root = FALSE
    /\ initPromise = "null"
    /\ call = [op |-> "none", pc |-> "idle", isRetry |-> FALSE, passes |-> 0, err |-> NULL, first |-> NULL]
    /\ initCall = [c \in Callers |-> [pc |-> "idle", rootSeen |-> FALSE]]
    /\ attempts = <<>>
    /\ current = 0
    /\ requested = 0
    /\ probe = [i \in Ids |-> [trigger |-> FALSE, loading |-> FALSE, meta |-> FALSE, shown |-> FALSE, hit |-> FALSE, reading |-> 0, engine |-> 0, started |-> 0]]
    /\ activeTaskId = NoTask

\* The state the user meets: the initialization effect has run to its end and
\* set globalStatus to 'idle' (ConverterView takes no file before that).
Init ==
    /\ InitState
    /\ globalStatus = "idle"
    /\ initRun = "over"

\* --------------------------------------------------------------- actions
\* ---------------------------------------------------------- file validation
\* The limits are in MiB; a size is a number of whole MiB and the bytes beyond.
\* export const MAX_FILE_SIZE = 2 * 1024 * 1024 * 1024
MAX_FILE_SIZE == 2 * 1024

\* export const RECOMMENDED_MAX_SIZE = 500 * 1024 * 1024
RECOMMENDED_MAX_SIZE == 500

\* A size in bytes is kept as whole MiB and remaining bytes, the limits being
\* whole MiB: bytes(m, r) is m * 1024 * 1024 + r with r < 1024 * 1024.
bytes(m, r) == [mib |-> m, rest |-> r]

\* file.size > limit * 1024 * 1024
larger(size, limit) == size.mib > limit \/ (size.mib = limit /\ size.rest > 0)

\* the sizes of the files the user submits: small, the largest without warning,
\* one byte more, the largest accepted one, and one byte beyond it
FileSizes ==
    {bytes(0, 1), bytes(RECOMMENDED_MAX_SIZE, 0), bytes(RECOMMENDED_MAX_SIZE, 1),
     bytes(MAX_FILE_SIZE, 0), bytes(MAX_FILE_SIZE, 1)}

\* mutant of validateFileSize: the limits themselves are already too large
validateFileSizeFrom(size) ==
    IF larger(size, MAX_FILE_SIZE) \/ size = bytes(MAX_FILE_SIZE, 0)
    THEN [valid |-> FALSE, error |-> "File too large", warning |-> NULL]
    ELSE IF larger(size, RECOMMENDED_MAX_SIZE) \/ size = bytes(RECOMMENDED_MAX_SIZE, 0)
    THEN [valid |-> TRUE, error |-> NULL, warning |-> "Large file detected"]
    ELSE [valid |-> TRUE, error |-> NULL, warning |-> NULL]

\* validateFileSize(file)
validateFileSize(size) ==
    IF larger(size, MAX_FILE_SIZE)
    THEN [valid |-> FALSE, error |-> "File too large", warning |-> NULL]
    ELSE IF larger(size, RECOMMENDED_MAX_SIZE)
    THEN [valid |-> TRUE, error |-> NULL, warning |-> "Large file detected"]
    ELSE [valid |-> TRUE, error |-> NULL, warning |-> NULL]

\* addTask on a file that passes validateFileSize: the task is appended and
\* setGlobalStatus('processing'); the TaskRunner mounted for the new task starts
\* processFile and loadWithRetry.
acceptFile(limit) ==
    /\ nextId <= limit
    /\ tasks' = Append(tasks, newTask(nextId))
    /\ nextId' = nextId + 1
    /\ ingest' = [ingest EXCEPT ![nextId] = "running"]
    /\ engine' = [engine EXCEPT ![nextId] = "loading"]
    /\ qorder' = NextQOrder(qorder, tasks')
    /\ globalStatus' = "processing"
    /\ UNCHANGED <<maxConcurrency, runs, stale, initRun>>
    /\ UNCHANGED <<ingestVars, loadVars, sideVars, logVars, convVars>>

\* addTask on a file of a supported type and an accepted size
addTaskUpTo(limit) == acceptFile(limit) /\ UNCHANGED <<alert, supported>>

AddTask == addTaskUpTo(MaxTasks)

\* removeTask, inside the updater: if (filtered.length === 0)
\* setGlobalStatus('idle')
statusAfterRemove(gs, filtered) == IF Len(filtered) = 0 THEN "idle" ELSE gs

\* removeTask(id): the X button of either view
RemoveTask(id) ==
    /\ HasTask(tasks, id)
    /\ tasks' = removeTaskFrom(tasks, id)
    /\ qorder' = NextQOrder(qorder, tasks')
    /\ globalStatus' = statusAfterRemove(globalStatus, tasks')
    /\ UNCHANGED <<maxConcurrency, nextId, ingest, engine, runs, stale>>
    /\ UNCHANGED <<initRun, alert, supported>>
    /\ UNCHANGED <<ingestVars, loadVars, sideVars, logVars, convVars>>

\* processFile after validateVideoFile found the file valid and
\* 'await opfs.saveFile(inputFilename, file)' returned:
\* updateTask(task.id, { status: 'ready' })
ingestResolve(id) ==
    /\ ingest[id] = "running"
    /\ supported[id]
    /\ ingest' = [ingest EXCEPT ![id] = "saved"]
    /\ tasks' = updateTask(tasks, id, [status |-> "ready"])
    /\ qorder' = NextQOrder(qorder, tasks')
    /\ stale' = (stale \/ ~HasTask(tasks, id))
    /\ UNCHANGED <<maxConcurrency, nextId, engine, runs>>
    /\ UNCHANGED <<loadVars, moreVars>>

\* processFile resolves: validation succeeded and opfs.saveFile stored the file
\* (the whole save as one step; SpecIngest takes it apart)
IngestSucceed(id) ==
    /\ ingestResolve(id)
    /\ store' = [store EXCEPT ![inputFilename(id)] = fileOf(id)]
    /\ UNCHANGED <<save, got>>

\* processFile catches: invalid content or a failed save
IngestFail(id) ==
    /\ ingest[id] = "running"
    /\ ingest' = [ingest EXCEPT ![id] = "failed"]
    /\ tasks' = updateTask(tasks, id, [status |-> "error", errorMessage |-> "msg"])
    /\ qorder' = NextQOrder(qorder, tasks')
    /\ stale' = (stale \/ ~HasTask(tasks, id))
    /\ UNCHANGED <<maxConcurrency, nextId, engine, runs>>
    /\ UNCHANGED <<ingestVars, loadVars, moreVars>>

\* loadWithRetry: 'return; // Success!'
loadResolve(id) ==
    /\ engine[id] = "loading"
    /\ engine' = [engine EXCEPT ![id] = "loaded"]
    /\ UNCHANGED <<tasks, maxConcurrency, nextId, ingest, runs, qorder, stale>>
    /\ UNCHANGED <<ingestVars, moreVars>>

\* loadReject without the updateTask: the load gives up and tells nobody
loadRejectSilent(id) ==
    /\ engine[id] = "loading"
    /\ engine' = [engine EXCEPT ![id] = "failed"]
    /\ UNCHANGED <<tasks, maxConcurrency, nextId, ingest, runs, qorder, stale>>
    /\ UNCHANGED <<ingestVars, moreVars>>

\* loadWithRetry, attempt === retries:
\* updateTask(task.id, { status: 'error', errorMessage: error?.message || '...' })
loadReject(id) ==
    /\ engine[id] = "loading"
    /\ engine' = [engine EXCEPT ![id] = "failed"]
    /\ tasks' = updateTask(tasks, id, [status |-> "error", errorMessage |-> "msg"])
    /\ qorder' = NextQOrder(qorder, tasks')
    /\ stale' = (stale \/ ~HasTask(tasks, id))
    /\ UNCHANGED <<maxConcurrency, nextId, ingest, runs>>
    /\ UNCHANGED <<ingestVars, moreVars>>

\* loadWithRetry returns from an attempt that succeeded (the attempts as one
\* step; SpecLoad takes them apart)
LoadSucceed(id) == loadResolve(id) /\ UNCHANGED loadVars

\* loadWithRetry: the last attempt failed
LoadFail(id) == loadReject(id) /\ UNCHANGED loadVars

\* ConverterView, tasks.length === 1: ResultView when
\* tasks[0].status === 'done' && tasks[0].outputUrl, else ConversionProgress
showsResult(t) == t.status = "done" /\ t.outputUrl # NULL

\* ConversionProgress: <Button onClick={onExtract} disabled={status === 'processing'}
\* isLoading={status === 'reading'}>.  Button renders
\* <button disabled={isLoading || props.disabled} ... {...props}>: the spread comes
\* last, so the attribute in effect is props.disabled and isLoading disables nothing.
extractDisabled(t) == t.status = "processing"

\* the single-task view's Extract button can be pressed
canExtract(ts) ==
    /\ Len(ts) = 1
    /\ ~showsResult(ts[1])
    /\ ~extractDisabled(ts[1])

OnExtract ==
    /\ canExtract(tasks)
    /\ tasks' = updateTask(tasks, tasks[1].id, [status |-> "queued"])
    /\ qorder' = NextQOrder(qorder, tasks')
    /\ exited' = [exited EXCEPT ![tasks[1].id] = FALSE]
    /\ UNCHANGED <<maxConcurrency, nextId, ingest, engine, runs, stale, progress>>
    /\ UNCHANGED <<ingestVars, loadVars, sideVars, appVars, logVars>>

\* BatchControls: rendered for two or more tasks; both buttons are
\* disabled={!hasItems || isProcessing}
hasItems(ts) == \E i \in DOMAIN ts : ts[i].status \in {"ready", "done"}

isProcessingAny(ts) == \E i \in DOMAIN ts : ts[i].status \in {"processing", "queued"}

batchEnabled(ts) == Len(ts) > 1 /\ hasItems(ts) /\ ~isProcessingAny(ts)

\* tasks.forEach(task => { if (task.status === 'ready') updateTask(task.id, { status: 'queued' }) })
\* snapshot is the rendered collection the handler closes over, ts the state the
\* updaters are applied to, i the position forEach has reached
RECURSIVE startAllFrom(_, _, _)
startAllFrom(ts, snapshot, i) ==
    IF i > Len(snapshot) THEN ts
    ELSE startAllFrom(IF snapshot[i].status = "ready"
                      THEN updateTask(ts, snapshot[i].id, [status |-> "queued"])
                      ELSE ts,
                      snapshot, i + 1)

\* handleStartAll that queues whatever is not running
handleStartAllEvery(ts) ==
    [i \in DOMAIN ts |->
        IF ts[i].status # "processing" THEN Merge(ts[i], [status |-> "queued"]) ELSE ts[i]]

handleStartAll(ts) == startAllFrom(ts, ts, 1)

\* <Button onClick={onStartAll}>
onStartAll ==
    /\ tasks' = handleStartAll(tasks)
    /\ qorder' = NextQOrder(qorder, tasks')
    /\ exited' = [id \in Ids |-> exited[id] /\ StatusOf(tasks, id) # "ready"]
    /\ UNCHANGED <<maxConcurrency, nextId, ingest, engine, runs, stale, progress>>
    /\ UNCHANGED <<ingestVars, loadVars, sideVars, appVars, logVars>>

\* the button is disabled={!hasItems || isProcessing}
StartAll == batchEnabled(tasks) /\ onStartAll

\* tasks.forEach(task => { if (task.status !== 'processing') removeTask(task.id) })
RECURSIVE clearAllFrom(_, _, _)
clearAllFrom(ts, snapshot, i) ==
    IF i > Len(snapshot) THEN ts
    ELSE clearAllFrom(IF snapshot[i].status # "processing"
                      THEN removeTaskFrom(ts, snapshot[i].id)
                      ELSE ts,
                      snapshot, i + 1)

\* handleClearAll that spares nothing
handleClearAllEvery(ts) == SubSeq(ts, 1, 0)

handleClearAll(ts) == clearAllFrom(ts, ts, 1)

\* <Button onClick={onClearAll}>
onClearAll ==
    /\ tasks' = handleClearAll(tasks)
    /\ qorder' = NextQOrder(qorder, tasks')
    /\ globalStatus' = statusAfterRemove(globalStatus, tasks')
    /\ UNCHANGED <<maxConcurrency, nextId, ingest, engine, runs, stale>>
    /\ UNCHANGED <<initRun, alert, supported>>
    /\ UNCHANGED <<ingestVars, loadVars, sideVars, logVars, convVars>>

\* the button is disabled={!hasItems || isProcessing}
ClearAll == batchEnabled(tasks) /\ onClearAll

\* SetMaxConcurrency that preempts: the tasks running beyond the new limit go
\* back to 'queued'
SetMaxConcurrencyPreempt(n) ==
    /\ n # maxConcurrency
    /\ maxConcurrency' = n
    /\ tasks' = [i \in DOMAIN tasks |->
            IF /\ tasks[i].status = "processing"
               /\ processingCount(SubSeq(tasks, 1, i)) > n
            THEN Merge(tasks[i], [status |-> "queued"])
            ELSE tasks[i]]
    /\ qorder' = NextQOrder(qorder, tasks')
    /\ UNCHANGED <<nextId, ingest, engine, runs, stale>>
    /\ UNCHANGED <<ingestVars, loadVars, moreVars>>

\* setMaxConcurrency(parseInt(e.target.value)) from the settings slider, which is
\* not disabled while tasks are processing
SetMaxConcurrency(n) ==
    /\ n # maxConcurrency
    /\ maxConcurrency' = n
    /\ UNCHANGED <<tasks, nextId, ingest, engine, runs, qorder, stale>>
    /\ UNCHANGED <<ingestVars, loadVars, moreVars>>

\* mutant of canAdmit: a task is admitted only when nothing is processing
canAdmitWhenIdle(ts, limit) == processingCount(ts) = 0 /\ Len(queuedTasks(ts)) > 0

\* mutant of canAdmit: the slot test is off by one
canAdmitOffByOne(ts, limit) == processingCount(ts) <= limit /\ Len(queuedTasks(ts)) > 0

\* The queue management effect.
\* processingCount < maxConcurrency && queuedTasks.length > 0
canAdmit(ts, limit) == processingCount(ts) < limit /\ Len(queuedTasks(ts)) > 0

\* mutant of nextTask: the task that has been queued longest is taken
nextTaskFirstQueued(ts) == TaskOf(ts, qorder[1])

\* mutant of nextTask: the newest queued task is taken
nextTaskLast(ts) == queuedTasks(ts)[Len(queuedTasks(ts))]

\* const nextTask = queuedTasks[0]
nextTask(ts) == queuedTasks(ts)[1]

\* setTasks(prev => prev.map(t => t.id === nextTask.id
\*     ? { ...t, status: 'processing', triggerExtract: true } : t))
admit(ts, taskId) ==
    updateTask(ts, taskId, [status |-> "processing", triggerExtract |-> TRUE])

Admit ==
    /\ canAdmit(tasks, maxConcurrency)
    /\ tasks' = admit(tasks, nextTask(tasks).id)
    /\ qorder' = NextQOrder(qorder, tasks')
    /\ UNCHANGED <<maxConcurrency, nextId, ingest, engine, runs, stale>>
    /\ UNCHANGED <<ingestVars, loadVars, moreVars>>

\* The TaskRunner effect of a mounted task:
\*   if (task.status === 'processing' && task.triggerExtract) {
\*     updateTask(task.id, { triggerExtract: false }); extractAudio(); }
shouldExtract(t) == t.status = "processing" /\ t.triggerExtract

\* mutant of consumeTrigger: the one-shot flag is never reset
consumeTriggerKeepFlag(ts, id) == updateTask(ts, id, [status |-> "processing"])

\* the updaters the effect enqueues: the flag reset, then extractAudio's first
\* statement updateTask(task.id, { status: 'processing', progress: 0 })
consumeTrigger(ts, id) ==
    updateTask(updateTask(ts, id, [triggerExtract |-> FALSE]), id, [status |-> "processing"])

TaskRunnerExtract(id) ==
    /\ HasTask(tasks, id)
    /\ shouldExtract(TaskOf(tasks, id))
    /\ tasks' = consumeTrigger(tasks, id)
    /\ progress' = [progress EXCEPT ![id] = 0]
    /\ runs' = [runs EXCEPT ![id] = @ + 1]
    /\ qorder' = NextQOrder(qorder, tasks')
    /\ UNCHANGED <<maxConcurrency, nextId, ingest, engine, stale, exited>>
    /\ UNCHANGED <<ingestVars, loadVars, sideVars, appVars, logVars>>

\* mutant of extractDone: the result handle is left out of the update
extractDoneNoUrl(ts, id) == updateTask(ts, id, [status |-> "done"])

\* updateTask(task.id, { status: 'done', outputUrl: url, outputExt })
extractDone(ts, id) == updateTask(ts, id, [status |-> "done", outputUrl |-> "blob"])

\* updateTask(task.id, { status: 'error', errorMessage: e.message })
extractError(ts, id) == updateTask(ts, id, [status |-> "error", errorMessage |-> "msg"])

\* extractAudio runs to the end: the stored input was read, the loaded engine
\* took the file and exec returned 0
ExtractSucceed(id) ==
    /\ runs[id] > 0
    /\ ingest[id] = "saved"
    /\ engine[id] = "loaded"
    /\ runs' = [runs EXCEPT ![id] = @ - 1]
    /\ tasks' = extractDone(tasks, id)
    /\ qorder' = NextQOrder(qorder, tasks')
    /\ stale' = (stale \/ ~HasTask(tasks, id))
    /\ UNCHANGED <<maxConcurrency, nextId, ingest, engine>>
    /\ UNCHANGED <<ingestVars, loadVars, moreVars>>

\* extractAudio catches: readFile, an engine command or a non-zero exit code threw
ExtractFail(id) ==
    /\ runs[id] > 0
    /\ runs' = [runs EXCEPT ![id] = @ - 1]
    /\ tasks' = extractError(tasks, id)
    /\ qorder' = NextQOrder(qorder, tasks')
    /\ stale' = (stale \/ ~HasTask(tasks, id))
    /\ UNCHANGED <<maxConcurrency, nextId, ingest, engine>>
    /\ UNCHANGED <<ingestVars, loadVars, moreVars>>

Next ==
    \/ AddTask
    \/ \E id \in Ids : RemoveTask(id)
    \/ \E id \in Ids : IngestSucceed(id)
    \/ \E id \in Ids : IngestFail(id)
    \/ \E id \in Ids : LoadSucceed(id)
    \/ \E id \in Ids : LoadFail(id)
    \/ OnExtract
    \/ StartAll
    \/ ClearAll
    \/ \E n \in MinConcurrency..MaxLimit : SetMaxConcurrency(n)
    \/ Admit
    \/ \E id \in Ids : TaskRunnerExtract(id)
    \/ \E id \in Ids : ExtractSucceed(id)
    \/ \E id \in Ids : ExtractFail(id)

Spec == Init /\ [][Next]_vars

\* Spec with the scheduling of the queue management effect: React runs the
\* effect after every commit that changed tasks or maxConcurrency, so an
\* admission that stays possible is made.
SpecFair == Spec /\ WF_vars(Admit)

\* The first-in-first-out scenario: three files, the limit fixed at 1.
InitFifo == Init /\ maxConcurrency = MinConcurrency

AddTaskFifo == addTaskUpTo(FifoTasks)

NextFifo ==
    \/ AddTaskFifo
    \/ \E id \in Ids : RemoveTask(id)
    \/ \E id \in Ids : IngestSucceed(id)
    \/ \E id \in Ids : IngestFail(id)
    \/ \E id \in Ids : LoadSucceed(id)
    \/ \E id \in Ids : LoadFail(id)
    \/ OnExtract
    \/ StartAll
    \/ ClearAll
    \/ Admit
    \/ \E id \in Ids : TaskRunnerExtract(id)
    \/ \E id \in Ids : ExtractSucceed(id)
    \/ \E id \in Ids : ExtractFail(id)

SpecFifo == InitFifo /\ [][NextFifo]_vars

\* ------------------------------------------------- opfs.saveFile, step by step
\* another task holds a sync access handle on filename f
lockedByOther(f, id) ==
    \E j \in Ids \ {id} :
        ingest[j] = "running" /\ save[j].pc = "locked" /\ inputFilename(j) = f

\* mutant of initReturnsAtOnce: init() without its second line, every call on
\* a store without root runs the body
initReturnsOnRootOnly == root

\* init() when neither root nor initPromise is set: the body runs,
\* navigator.storage.getDirectory() gives the root and initPromise keeps the
\* settled promise.  With root or initPromise set, init() returns at once.
initReturnsAtOnce == root \/ initPromise # "null"

\* the opfs.init() of ConverterView's mount effect, or the first one of a call
StorageInit ==
    /\ ~initReturnsAtOnce
    /\ root' = TRUE
    /\ initPromise' = "resolved"
    /\ UNCHANGED call
    /\ UNCHANGED <<schedVars, ingestVars, loadVars, appVars, logVars, convVars, besideOpfs>>

\* another task has a writable stream open on filename f
writtenByOther(f, id) ==
    \E j \in Ids \ {id} :
        ingest[j] = "running" /\ save[j].pc \in {"writable", "written"} /\ inputFilename(j) = f

\* fileHandle = await this.root.getFileHandle(filename, { create: true })
SaveOpen(id) ==
    /\ ingest[id] = "running"
    /\ save[id].pc = "start"
    /\ root
    /\ save' = [save EXCEPT ![id].pc = "opened"]
    /\ store' = [store EXCEPT ![inputFilename(id)] = IF @ = NoFile THEN <<>> ELSE @]
    /\ UNCHANGED <<schedVars, got, loadVars, moreVars>>

\* if (fileHandle.createSyncAccessHandle)
\*   accessHandle = await fileHandle.createSyncAccessHandle()
\* the handle is exclusive: the call succeeds only on a file nobody has open
SaveLock(id) ==
    /\ ingest[id] = "running"
    /\ save[id].pc = "opened"
    /\ ~lockedByOther(inputFilename(id), id)
    /\ ~writtenByOther(inputFilename(id), id)
    /\ save' = [save EXCEPT ![id].pc = "locked", ![id].offset = 0]
    /\ UNCHANGED <<schedVars, store, got, loadVars, moreVars>>

\* one round of: while (offset < data.size) {
\*   accessHandle.write(new Uint8Array(await chunk.arrayBuffer()), { at: offset });
\*   offset += CHUNK_SIZE }
SaveChunk(id) ==
    /\ ingest[id] = "running"
    /\ save[id].pc = "locked"
    /\ save[id].offset < fileChunks(id)
    /\ store' = [store EXCEPT ![inputFilename(id)] =
                    writeAt(@, save[id].offset + 1, fileOf(id)[save[id].offset + 1])]
    /\ save' = [save EXCEPT ![id].offset = @ + 1]
    /\ UNCHANGED <<schedVars, got, loadVars, moreVars>>

\* the loop is over: accessHandle.flush(); accessHandle.close(); saveFile returns
\* and processFile marks the task ready
SaveCloseSync(id) ==
    /\ save[id].pc = "locked"
    /\ save[id].offset >= fileChunks(id)
    /\ save' = [save EXCEPT ![id].pc = "closed"]
    /\ ingestResolve(id)
    /\ UNCHANGED <<store, got>>

\* else: const writable = await fileHandle.createWritable()
SaveCreateWritable(id) ==
    /\ ingest[id] = "running"
    /\ save[id].pc = "opened"
    /\ ~lockedByOther(inputFilename(id), id)
    /\ save' = [save EXCEPT ![id].pc = "writable"]
    /\ UNCHANGED <<schedVars, store, got, loadVars, moreVars>>

\* await writable.write(data): the bytes go to the stream's own swap file
SaveWrite(id) ==
    /\ ingest[id] = "running"
    /\ save[id].pc = "writable"
    /\ save' = [save EXCEPT ![id].pc = "written"]
    /\ UNCHANGED <<schedVars, store, got, loadVars, moreVars>>

\* await writable.close(): the swap file replaces the file's content; saveFile
\* returns and processFile marks the task ready
SaveCloseWritable(id) ==
    /\ save[id].pc = "written"
    /\ save' = [save EXCEPT ![id].pc = "closed"]
    /\ store' = [store EXCEPT ![inputFilename(id)] = fileOf(id)]
    /\ ingestResolve(id)
    /\ UNCHANGED got

\* a transient error (NotAllowedError, SecurityError, InvalidStateError) on the
\* first pass: the handle is closed or the stream aborted, and
\* 'this.root = null; return executeSave(true)' starts the save again, on the
\* root that init() leaves
SaveRetry(id) ==
    /\ ingest[id] = "running"
    /\ save[id].pc \in {"opened", "locked", "writable", "written"}
    /\ ~save[id].isRetry
    /\ save' = [save EXCEPT ![id] = [pc |-> "start", offset |-> 0, isRetry |-> TRUE]]
    /\ root' = FALSE
    /\ UNCHANGED <<initPromise, call>>
    /\ UNCHANGED <<schedVars, store, got, loadVars, appVars, logVars, convVars, besideOpfs>>

\* const inputFile = await opfs.readFile(inputFilename) of extractAudio and
\* fetchMetadata: the file's current content (NotFoundError when there is none)
ReadFile(id) ==
    /\ id < nextId
    /\ root
    /\ store[inputFilename(id)] # NoFile
    /\ got' = [got EXCEPT ![id] = store[inputFilename(id)]]
    /\ UNCHANGED <<schedVars, store, save, loadVars, moreVars>>

\* Ingest with the save taken apart; IngestFail is validation failing or the
\* save throwing for good at any point.
NextIngest ==
    \/ AddTask
    \/ StorageInit
    \/ \E id \in Ids : SaveOpen(id)
    \/ \E id \in Ids : SaveLock(id)
    \/ \E id \in Ids : SaveChunk(id)
    \/ \E id \in Ids : SaveCloseSync(id)
    \/ \E id \in Ids : SaveCreateWritable(id)
    \/ \E id \in Ids : SaveWrite(id)
    \/ \E id \in Ids : SaveCloseWritable(id)
    \/ \E id \in Ids : SaveRetry(id)
    \/ \E id \in Ids : IngestFail(id)
    \/ \E id \in Ids : ReadFile(id)

SpecIngest == Init /\ [][NextIngest]_vars

\* --------------------------------------------------- loadWithRetry, step by step
\* fetchWithProgress: cachedResponse = await cache.match(request); a hit returns
\* the cached binary, a miss goes on to 'await fetch(request)'
CacheMatch(id) ==
    /\ engine[id] = "loading"
    /\ load[id].pc = "match"
    /\ IF cached
       THEN /\ load' = [load EXCEPT ![id].pc = "load"]
            /\ UNCHANGED fetchCount
       ELSE /\ load' = [load EXCEPT ![id].pc = "fetch"]
            /\ fetchCount' = fetchCount + 1
    /\ UNCHANGED <<schedVars, ingestVars, cached, putCount, orphan, moreVars>>

\* response.ok and the body has been read to the end
FetchDone(id) ==
    /\ engine[id] = "loading"
    /\ load[id].pc = "fetch"
    /\ load' = [load EXCEPT ![id].pc = "put"]
    /\ UNCHANGED <<schedVars, ingestVars, cached, fetchCount, putCount, orphan, moreVars>>

\* await cache.put(request, responseToCache)
CachePut(id) ==
    /\ engine[id] = "loading"
    /\ load[id].pc = "put"
    /\ load' = [load EXCEPT ![id].pc = "load"]
    /\ cached' = TRUE
    /\ putCount' = putCount + 1
    /\ UNCHANGED <<schedVars, ingestVars, fetchCount, orphan, moreVars>>

\* await ffmpeg.load({ coreURL, wasmURL }) resolved
EngineLoad(id) ==
    /\ load[id].pc = "load"
    /\ load' = [load EXCEPT ![id].pc = "done"]
    /\ loadResolve(id)
    /\ UNCHANGED <<cached, fetchCount, putCount, orphan>>

\* the attempt threw (fetch failed or ffmpeg.load failed) and attempt < retries:
\* back off, then the next attempt
AttemptFail(id) ==
    /\ engine[id] = "loading"
    /\ load[id].pc \in {"fetch", "load"}
    /\ load[id].attempt < retries
    /\ load' = [load EXCEPT ![id] = [pc |-> "match", attempt |-> @.attempt + 1]]
    /\ UNCHANGED <<schedVars, ingestVars, cached, fetchCount, putCount, orphan, moreVars>>

\* the attempt threw and attempt === retries
LastAttemptFail(id) ==
    /\ load[id].pc \in {"fetch", "load"}
    /\ load[id].attempt = retries
    /\ load' = [load EXCEPT ![id].pc = "done"]
    /\ loadReject(id)
    /\ UNCHANGED <<cached, fetchCount, putCount, orphan>>

\* the steps of one attempt that are still to come
Running == {"match", "fetch", "put", "load"}

\* Promise.race([ (async () => {...})(), timeout ]): the timeout rejected first
\* and attempt < retries.  Nothing cancels the inner async function: it goes on
\* from where it stands while the loop backs off and starts the next attempt.
AttemptTimeout(id) ==
    /\ engine[id] = "loading"
    /\ load[id].pc \in Running
    /\ load[id].attempt < retries
    /\ orphan' = [orphan EXCEPT ![id][load[id].attempt] = load[id].pc]
    /\ load' = [load EXCEPT ![id] = [pc |-> "match", attempt |-> @.attempt + 1]]
    /\ UNCHANGED <<schedVars, ingestVars, cached, fetchCount, putCount, moreVars>>

\* the timeout rejected first and attempt === retries
LastAttemptTimeout(id) ==
    /\ load[id].pc \in Running
    /\ load[id].attempt = retries
    /\ orphan' = [orphan EXCEPT ![id][load[id].attempt] = load[id].pc]
    /\ load' = [load EXCEPT ![id].pc = "done"]
    /\ loadReject(id)
    /\ UNCHANGED <<cached, fetchCount, putCount>>

\* a timed-out attempt goes on: cache.match, then fetch on a miss
OrphanMatch(id, a) ==
    /\ orphan[id][a] = "match"
    /\ IF cached
       THEN /\ orphan' = [orphan EXCEPT ![id][a] = "load"]
            /\ UNCHANGED fetchCount
       ELSE /\ orphan' = [orphan EXCEPT ![id][a] = "fetch"]
            /\ fetchCount' = fetchCount + 1
    /\ UNCHANGED <<schedVars, ingestVars, load, cached, putCount, moreVars>>

\* a timed-out attempt goes on: the body has been read to the end
OrphanFetchDone(id, a) ==
    /\ orphan[id][a] = "fetch"
    /\ orphan' = [orphan EXCEPT ![id][a] = "put"]
    /\ UNCHANGED <<schedVars, ingestVars, load, cached, fetchCount, putCount, moreVars>>

\* a timed-out attempt goes on: cache.put
OrphanPut(id, a) ==
    /\ orphan[id][a] = "put"
    /\ orphan' = [orphan EXCEPT ![id][a] = "load"]
    /\ cached' = TRUE
    /\ putCount' = putCount + 1
    /\ UNCHANGED <<schedVars, ingestVars, load, fetchCount, moreVars>>

\* a timed-out attempt comes to its end: its fetch or its ffmpeg.load threw, or
\* its ffmpeg.load resolved; the race was settled before, nobody hears of it
OrphanEnd(id, a) ==
    /\ orphan[id][a] \in {"fetch", "load"}
    /\ orphan' = [orphan EXCEPT ![id][a] = "over"]
    /\ UNCHANGED <<schedVars, ingestVars, load, cached, fetchCount, putCount, moreVars>>

NextLoad ==
    \/ AddTask
    \/ \E id \in Ids : CacheMatch(id)
    \/ \E id \in Ids : FetchDone(id)
    \/ \E id \in Ids : CachePut(id)
    \/ \E id \in Ids : EngineLoad(id)
    \/ \E id \in Ids : AttemptFail(id)
    \/ \E id \in Ids : LastAttemptFail(id)

SpecLoad == Init /\ [][NextLoad]_vars

\* one file, the limit at its minimum
InitRace == Init /\ maxConcurrency = MinConcurrency

AddTaskRace == addTaskUpTo(RaceTasks)

\* SpecLoad with the timeout of Promise.race and what it leaves behind
NextRace ==
    \/ AddTaskRace
    \/ \E id \in Ids : CacheMatch(id)
    \/ \E id \in Ids : FetchDone(id)
    \/ \E id \in Ids : CachePut(id)
    \/ \E id \in Ids : EngineLoad(id)
    \/ \E id \in Ids : AttemptFail(id)
    \/ \E id \in Ids : LastAttemptFail(id)
    \/ \E id \in Ids : AttemptTimeout(id)
    \/ \E id \in Ids : LastAttemptTimeout(id)
    \/ \E id \in Ids, a \in 1..retries : OrphanMatch(id, a)
    \/ \E id \in Ids, a \in 1..retries : OrphanFetchDone(id, a)
    \/ \E id \in Ids, a \in 1..retries : OrphanPut(id, a)
    \/ \E id \in Ids, a \in 1..retries : OrphanEnd(id, a)

SpecRace == InitRace /\ [][NextRace]_vars

\* ------------------------------------------------ the progress of a conversion
\* what the engine reports, in percent of the work (progress * 100, rounded):
\* below the range, inside it, at its end, beyond it
RawProgress == {-1, 50, 100, 101}

\* const p = Math.max(0, Math.min(100, Math.round(progress * 100)))
clampProgress(x) == IF x < 0 THEN 0 ELSE IF x > 100 THEN 100 ELSE x

\* The engine emits 'progress' events while an exec of the task is under way
\* (extractAudio has read the stored input into the loaded engine), in
\* non-decreasing order of their value.
engineEmits(id, x) ==
    /\ runs[id] > 0
    /\ ingest[id] = "saved"
    /\ engine[id] = "loaded"
    /\ clampProgress(x) >= progress[id]

\* ffmpeg.on('progress', ...): an event that passes the throttle (more than 100 ms
\* after the last one, or p === 100) is written with updateTask(task.id,
\* { progress: p }), whatever the status of the task; an event that does not pass
\* is dropped.
EngineProgress(id, x) ==
    /\ engineEmits(id, x)
    /\ HasTask(tasks, id)
    /\ progress' = [progress EXCEPT ![id] = clampProgress(x)]
    /\ UNCHANGED <<schedVars, ingestVars, loadVars, sideVars, appVars, logVars, exited>>

NextProgress ==
    \/ Next
    \/ \E id \in Ids, x \in RawProgress : EngineProgress(id, x)

SpecProgress == Init /\ [][NextProgress]_vars

\* ------------------------------------------------------- addTask on any file
\* addTask(file) for a file of the given size whose content is (video) or is not
\* a recognized video format.  Only validateFileSize is asked: a file that fails
\* it is answered with alert(validation.error) and nothing else happens; every
\* other file becomes a task, and validateVideoFile is asked later, by the
\* processFile of the task's TaskRunner.
AddFile(size, video) ==
    IF ~validateFileSize(size).valid
    THEN /\ alert' = validateFileSize(size).error
         /\ UNCHANGED <<schedVars, ingestVars, loadVars, sideVars, logVars, convVars>>
         /\ UNCHANGED <<globalStatus, initRun, supported>>
    ELSE /\ acceptFile(MaxTasks)
         /\ supported' = [supported EXCEPT ![nextId] = video]
         /\ UNCHANGED alert

NextAdd ==
    \/ \E size \in FileSizes, video \in BOOLEAN : AddFile(size, video)
    \/ \E id \in Ids : RemoveTask(id)
    \/ \E id \in Ids : IngestSucceed(id)
    \/ \E id \in Ids : IngestFail(id)
    \/ \E id \in Ids : LoadSucceed(id)
    \/ \E id \in Ids : LoadFail(id)

SpecAdd == Init /\ [][NextAdd]_vars

\* ------------------------------------------- the batch handlers on any collection
\* ConversionTask['status']
Statuses == {"reading", "ready", "queued", "processing", "done", "error"}

\* a task in the given status, as the program leaves it there
taskIn(id, st) ==
    [id |-> id, status |-> st, triggerExtract |-> FALSE,
     outputUrl |-> IF st = "done" THEN "blob" ELSE NULL,
     errorMessage |-> IF st = "error" THEN "msg" ELSE NULL]

\* the collections of up to MaxBatch tasks, every task in any status
BatchCollections ==
    UNION {{[i \in 1..n |-> taskIn(i, f[i])] : f \in [1..n -> Statuses]} : n \in 0..MaxBatch}

\* handleStartAll and handleClearAll are functions of the rendered collection;
\* they start from any collection, the routines of every task at rest.
InitBatch ==
    /\ tasks \in BatchCollections
    /\ maxConcurrency = MinConcurrency
    /\ nextId = Len(tasks) + 1
    /\ ingest = [id \in Ids |->
            IF ~HasTask(tasks, id) THEN "idle"
            ELSE IF StatusOf(tasks, id) = "reading" THEN "running"
            ELSE IF StatusOf(tasks, id) = "error" THEN "failed" ELSE "saved"]
    /\ engine = [id \in Ids |-> IF HasTask(tasks, id) THEN "loaded" ELSE "idle"]
    /\ runs = [id \in Ids |-> IF StatusOf(tasks, id) = "processing" THEN 1 ELSE 0]
    /\ qorder = NextQOrder(SubSeq(tasks, 1, 0), tasks)
    /\ stale = FALSE
    /\ store = [f \in Filenames |->
            IF \E id \in Ids : f = inputFilename(id) /\ ingest[id] = "saved"
            THEN fileOf(CHOOSE id \in Ids : f = inputFilename(id))
            ELSE NoFile]
    /\ save = [id \in Ids |-> [pc |-> "start", offset |-> 0, isRetry |-> FALSE]]
    /\ got = [id \in Ids |-> NoFile]
    /\ load = [id \in Ids |-> [pc |-> "match", attempt |-> 1]]
    /\ cached = FALSE
    /\ fetchCount = 0
    /\ putCount = 0
    /\ orphan = [id \in Ids |-> [a \in 1..retries |-> "none"]]
    /\ globalStatus = IF Len(tasks) = 0 THEN "idle" ELSE "processing"
    /\ initRun = "over"
    /\ alert = NULL
    /\ supported = [id \in Ids |-> TRUE]
    /\ taskLogs = [id \in Ids |-> <<>>]
    /\ globalLogs = <<>>
    /\ sent = [id \in Ids |-> 0]
    /\ progress = [id \in Ids |-> 0]
    /\ exited = [id \in Ids |-> FALSE]
    /\ execDone = [id \in Ids |-> 0]
    /\ made = [id \in Ids |-> 0]
    /\ urlsRef = [id \in Ids |-> {}]
    /\ revoked = [id \in Ids |-> {}]
    /\ cleaned = [id \in Ids |-> FALSE]
    /\ error = NULL
    /\ known = [e \in ErrIds |-> "none"]
    /\ timers = {}
    /\ now = 0
    /\ shownAt = 0
    /\ fired = {}
    /\ fileSize = [mib |-> 0, rest |-> 0]
    /\ sizeResult = <<>>
    /\ fileHead = <<>>
    /\ fileType = <<>>
    /\ typeResult = <<>>
    /\ selectedFormat = "mp3"
    /\ metadata = [probed |-> FALSE, streams |-> <<>>]
    /\ outputExt = <<>>
    /\ root = FALSE
    /\ initPromise = "null"
    /\ call = [op |-> "none", pc |-> "idle", isRetry |-> FALSE, passes |-> 0, err |-> NULL, first |-> NULL]
    /\ initCall = [c \in Callers |-> [pc |-> "idle", rootSeen |-> FALSE]]
    /\ attempts = <<>>
    /\ current = 0
    /\ requested = 0
    /\ probe = [i \in Ids |-> [trigger |-> FALSE, loading |-> FALSE, meta |-> FALSE, shown |-> FALSE, hit |-> FALSE, reading |-> 0, engine |-> 0, started |-> 0]]
    /\ activeTaskId = NoTask

NextBatch ==
    \/ onStartAll
    \/ onClearAll

SpecBatch == InitBatch /\ [][NextBatch]_vars

\* The queue management effect is a function of the rendered collection and of
\* maxConcurrency.  It is tried on every collection, the tasks entering
\* 'queued' one by one in any order: updateTask(id, { status: 'queued' }), the
\* update behind onExtract and handleStartAll, on any task that is ready.
Enqueue(id) ==
    /\ StatusOf(tasks, id) = "ready"
    /\ tasks' = updateTask(tasks, id, [status |-> "queued"])
    /\ qorder' = NextQOrder(qorder, tasks')
    /\ UNCHANGED <<maxConcurrency, nextId, ingest, engine, runs, stale>>
    /\ UNCHANGED <<ingestVars, loadVars, moreVars>>

NextAdmit ==
    \/ \E id \in Ids : Enqueue(id)
    \/ \E n \in MinConcurrency..MaxLimit : SetMaxConcurrency(n)
    \/ Admit

SpecAdmit == InitBatch /\ [][NextAdmit]_vars

\* ------------------------------------------------- the provider from its mount
\* useState<AppStatus>('init'); the initialization effect has started init()
InitMount ==
    /\ InitState
    /\ globalStatus = "init"
    /\ initRun = "running"

\* init(): the six waits of 100 ms are over: setGlobalStatus('idle'), whatever
\* globalStatus has become in the meantime
InitDone ==
    /\ initRun = "running"
    /\ initRun' = "over"
    /\ globalStatus' = "idle"
    /\ UNCHANGED <<schedVars, ingestVars, loadVars, sideVars, logVars, convVars, alert, supported>>

\* init(): window.isSecureContext is false; the throw and the catch run inside
\* the effect, before anything else can happen: setGlobalStatus('error')
InitError ==
    /\ initRun = "running"
    /\ globalStatus = "init"
    /\ nextId = 1
    /\ initRun' = "over"
    /\ globalStatus' = "error"
    /\ UNCHANGED <<schedVars, ingestVars, loadVars, sideVars, logVars, convVars, alert, supported>>

\* The provider as its consumers may call it (the context test adds a task right
\* after the mount): every step of Spec, beside the initialization routine.
NextGlobal ==
    \/ Next
    \/ InitDone
    \/ InitError

SpecGlobal == InitMount /\ [][NextGlobal]_vars

\* ------------------------------------------------------------------ the logs
\* a slice that keeps the head of the array
sliceFirst(arr, n) == IF Len(arr) <= n THEN arr ELSE SubSeq(arr, 1, n)

\* arr.slice(-n): the last n elements, all of them when there are fewer
sliceLast(arr, n) ==
    IF Len(arr) <= n THEN arr ELSE SubSeq(arr, Len(arr) - n + 1, Len(arr))

\* [...log.slice(-keep), entry]
appendCapped(log, keep, entry) == Append(sliceLast(log, keep), entry)

RECURSIVE Total(_, _)
Total(f, n) == IF n = 0 THEN 0 ELSE f[n] + Total(f, n - 1)

\* all addLog calls that found their task
totalSent == Total(sent, Cardinality(Ids))

\* addLog(taskId, message) from a routine of task id.  Inside the setTasks
\* updater: a task that is gone leaves everything as it is; otherwise the entry
\* goes to the global log and to the log of the task.  An entry stands for its
\* number: in the task's log among the entries of the task, in the global log
\* among all entries.
AddLog(id) ==
    /\ id < nextId
    /\ totalSent < MaxLogCalls
    /\ IF ~HasTask(tasks, id)
       THEN UNCHANGED logVars
       ELSE /\ sent' = [sent EXCEPT ![id] = @ + 1]
            /\ globalLogs' = appendCapped(globalLogs, keepGlobalLogs, totalSent + 1)
            /\ taskLogs' = [taskLogs EXCEPT
                    ![id] = appendCapped(@, keepTaskLogs, sent[id] + 1)]
    /\ UNCHANGED <<schedVars, ingestVars, loadVars, sideVars, appVars, convVars>>

\* clearLogs(): setGlobalLogs([])
ClearLogs ==
    /\ Len(globalLogs) > 0
    /\ globalLogs' = SubSeq(globalLogs, 1, 0)
    /\ UNCHANGED <<taskLogs, sent>>
    /\ UNCHANGED <<schedVars, ingestVars, loadVars, sideVars, appVars, convVars>>

InitLog == Init /\ maxConcurrency = MinConcurrency

AddTaskLog == addTaskUpTo(LogTasks)

NextLog ==
    \/ AddTaskLog
    \/ \E id \in Ids : RemoveTask(id)
    \/ \E id \in Ids : AddLog(id)
    \/ ClearLogs

SpecLog == InitLog /\ [][NextLog]_vars

\* --------------------------------------------------- the exit code of the engine
\* what 'await ffmpeg.exec(ffmpegArgs)' resolves to
ExecResults == {-1, 0, 1}

\* new Error(`FFmpeg exited with code ${ret}`).message
exitMessage(ret) == "FFmpeg exited with code " \o ToString(ret)

\* an extractAudio that tries again by itself after a failed exec
exitErrorRetry(ts, id, ret) ==
    updateTask(ts, id, [status |-> "processing", triggerExtract |-> TRUE,
                        errorMessage |-> exitMessage(ret)])

\* catch (e): updateTask(task.id, { status: 'error', errorMessage: e.message })
exitError(ts, id, ret) ==
    updateTask(ts, id, [status |-> "error", errorMessage |-> exitMessage(ret)])

\* extractAudio: the stored input was read into the loaded engine and exec
\* resolved to ret; if (ret !== 0) throw, and the catch ends the run
ExtractExit(id, ret) ==
    /\ runs[id] > 0
    /\ ingest[id] = "saved"
    /\ engine[id] = "loaded"
    /\ ret # 0
    /\ runs' = [runs EXCEPT ![id] = @ - 1]
    /\ tasks' = exitError(tasks, id, ret)
    /\ qorder' = NextQOrder(qorder, tasks')
    /\ stale' = (stale \/ ~HasTask(tasks, id))
    /\ exited' = [exited EXCEPT ![id] = TRUE]
    /\ UNCHANGED <<maxConcurrency, nextId, ingest, engine, progress>>
    /\ UNCHANGED <<ingestVars, loadVars, sideVars, appVars, logVars>>

NextExit ==
    \/ Next
    \/ \E id \in Ids, ret \in ExecResults : ExtractExit(id, ret)

SpecExit == Init /\ [][NextExit]_vars

\* ------------------------------------------------ the end of an extraction
\* The extraction's success path in two steps, with an engine that always
\* reports the end of its work: the exec of a run returns 0 after a last
\* 'progress' event of value 1, which the listener writes as progress 100
\* (p === 100 passes the throttle); the routine then reads the output, makes the
\* blob and writes 'done'.
execReturns(id) ==
    /\ runs[id] > execDone[id]
    /\ ingest[id] = "saved"
    /\ engine[id] = "loaded"

ExecReturn(id) ==
    /\ execReturns(id)
    /\ progress' = IF HasTask(tasks, id)
                   THEN [progress EXCEPT ![id] = clampProgress(100)]
                   ELSE progress
    /\ execDone' = [execDone EXCEPT ![id] = @ + 1]
    /\ UNCHANGED <<schedVars, ingestVars, loadVars, appVars, logVars, exited, besideDone>>

\* extractAudio after the exec: ffmpeg.readFile, new Blob, createBlobUrl and
\* updateTask(task.id, { status: 'done', outputUrl: url, outputExt })
ExtractFinish(id) ==
    /\ execDone[id] > 0
    /\ execDone' = [execDone EXCEPT ![id] = @ - 1]
    /\ runs' = [runs EXCEPT ![id] = @ - 1]
    /\ tasks' = extractDone(tasks, id)
    /\ qorder' = NextQOrder(qorder, tasks')
    /\ stale' = (stale \/ ~HasTask(tasks, id))
    /\ UNCHANGED <<maxConcurrency, nextId, ingest, engine>>
    /\ UNCHANGED <<ingestVars, loadVars, appVars, logVars, convVars, besideDone>>

\* extractAudio catches before its exec has returned 0
ExtractThrow(id) ==
    /\ runs[id] > execDone[id]
    /\ runs' = [runs EXCEPT ![id] = @ - 1]
    /\ tasks' = extractError(tasks, id)
    /\ qorder' = NextQOrder(qorder, tasks')
    /\ stale' = (stale \/ ~HasTask(tasks, id))
    /\ UNCHANGED <<maxConcurrency, nextId, ingest, engine>>
    /\ UNCHANGED <<ingestVars, loadVars, moreVars>>

NextDone ==
    \/ AddTask
    \/ \E id \in Ids : RemoveTask(id)
    \/ \E id \in Ids : IngestSucceed(id)
    \/ \E id \in Ids : IngestFail(id)
    \/ \E id \in Ids : LoadSucceed(id)
    \/ \E id \in Ids : LoadFail(id)
    \/ OnExtract
    \/ StartAll
    \/ ClearAll
    \/ \E n \in MinConcurrency..MaxLimit : SetMaxConcurrency(n)
    \/ Admit
    \/ \E id \in Ids : TaskRunnerExtract(id)
    \/ \E id \in Ids, x \in RawProgress : EngineProgress(id, x)
    \/ \E id \in Ids : ExecReturn(id)
    \/ \E id \in Ids : ExtractFinish(id)
    \/ \E id \in Ids : ExtractThrow(id)

SpecDone == Init /\ [][NextDone]_vars

\* ------------------------------------------------------ blob URLs (useCleanup)
\* Each TaskRunner owns one useFFmpegEngine, which owns one useCleanup; the
\* TaskRunners are rendered from the collection with key={task.id}, so the hook
\* of a task unmounts in the commit that follows the task's removal.
MaxUrls == 2

\* createBlobUrl(blob): URL.createObjectURL, urlsRef.current.push(url)
createBlobUrl(id) ==
    /\ made' = [made EXCEPT ![id] = @ + 1]
    /\ urlsRef' = [urlsRef EXCEPT ![id] = @ \cup {made[id] + 1}]
    /\ UNCHANGED <<revoked, cleaned>>

\* the cleanup returned by the hook's effect: every URL of a copy of
\* urlsRef.current is revoked and the registry is emptied
unmountCleanup(id) ==
    /\ revoked' = [revoked EXCEPT ![id] = @ \cup urlsRef[id]]
    /\ urlsRef' = [urlsRef EXCEPT ![id] = {}]
    /\ cleaned' = [cleaned EXCEPT ![id] = TRUE]
    /\ UNCHANGED made

\* the tasks that left the collection and whose TaskRunner React has not yet
\* unmounted; the commit that unmounts them comes before any other step
toUnmount == {id \in Ids : id < nextId /\ ~HasTask(tasks, id) /\ ~cleaned[id]}

Unmount(id) ==
    /\ id \in toUnmount
    /\ unmountCleanup(id)
    /\ UNCHANGED <<schedVars, ingestVars, loadVars, appVars, logVars, convVars, besideBlob>>

\* extractAudio runs to the end, the result handle being made by createBlobUrl
ExtractSucceedBlob(id) ==
    /\ runs[id] > 0
    /\ ingest[id] = "saved"
    /\ engine[id] = "loaded"
    /\ made[id] < MaxUrls
    /\ createBlobUrl(id)
    /\ runs' = [runs EXCEPT ![id] = @ - 1]
    /\ tasks' = extractDone(tasks, id)
    /\ qorder' = NextQOrder(qorder, tasks')
    /\ stale' = (stale \/ ~HasTask(tasks, id))
    /\ UNCHANGED <<maxConcurrency, nextId, ingest, engine>>
    /\ UNCHANGED <<ingestVars, loadVars, appVars, logVars, convVars, besideBlob>>

NextBlob ==
    \/ /\ toUnmount = {}
       /\ \/ AddTask
          \/ \E id \in Ids : RemoveTask(id)
          \/ \E id \in Ids : IngestSucceed(id)
          \/ \E id \in Ids : IngestFail(id)
          \/ \E id \in Ids : LoadSucceed(id)
          \/ \E id \in Ids : LoadFail(id)
          \/ OnExtract
          \/ StartAll
          \/ ClearAll
          \/ \E n \in MinConcurrency..MaxLimit : SetMaxConcurrency(n)
          \/ Admit
          \/ \E id \in Ids : TaskRunnerExtract(id)
          \/ \E id \in Ids : ExtractSucceedBlob(id)
          \/ \E id \in Ids : ExtractFail(id)
    \/ \E id \in Ids : Unmount(id)

SpecBlob == Init /\ [][NextBlob]_vars

\* ------------------------------------------------------------ useErrorDisplay
\* Time in seconds, up to MaxTime; timers run when they are due: the clock moves
\* to the next due time, or by TickLen when no timer is due before.
MaxTime == 12

TickLen == 4

\* setTimeout(..., 8000)
autoClearDelay == 8

\* what showError can be given: an Error, something that is no Error, a new
\* ApplicationError of either kind, or an ApplicationError that exists already
ShowInputs == {"Error", "other", "appRec", "appFatal"} \cup ErrIds

\* new ApplicationError(...): the next instance, its id (Math.random) being new
newError == "e" \o ToString(Cardinality({e \in ErrIds : known[e] # "none"}) + 1)

\* handleError(err, context).id: an ApplicationError is returned as it is, an
\* Error is wrapped in a recoverable ApplicationError and anything else in a
\* non-recoverable one
handleError(err) == IF err \in ErrIds THEN err ELSE newError

\* the recoverable field of handleError(err, context)
recoverable(err) ==
    IF err \in ErrIds THEN known[err] = "rec" ELSE err \in {"Error", "appRec"}

\* mutant of autoClear: the timer clears whatever is displayed
autoClearAny(prev, id) == NULL

\* setError(prev => prev?.id === appError.id ? null : prev)
autoClear(prev, id) == IF prev = id THEN NULL ELSE prev

ShowError(err) ==
    /\ err \in ErrIds => known[err] # "none"
    /\ err \notin ErrIds => newError \in ErrIds
    /\ known' = [known EXCEPT ![handleError(err)] =
                    IF recoverable(err) THEN "rec" ELSE "fatal"]
    /\ error' = handleError(err)
    /\ timers' = IF recoverable(err)
                 THEN timers \cup {[id |-> handleError(err), due |-> now + autoClearDelay]}
                 ELSE timers
    /\ shownAt' = now
    /\ UNCHANGED <<now, fired>>
    /\ UNCHANGED <<schedVars, ingestVars, loadVars, appVars, logVars, convVars, besideErr>>

\* clearError(): setError(null)
ClearError ==
    /\ error # NULL
    /\ error' = NULL
    /\ UNCHANGED <<known, timers, now, shownAt, fired>>
    /\ UNCHANGED <<schedVars, ingestVars, loadVars, appVars, logVars, convVars, besideErr>>

\* a callback of setTimeout runs
TimerFire(t) ==
    /\ t \in timers
    /\ t.due <= now
    /\ error' = autoClear(error, t.id)
    /\ timers' = timers \ {t}
    /\ fired' = fired \cup {t.id}
    /\ UNCHANGED <<known, now, shownAt>>
    /\ UNCHANGED <<schedVars, ingestVars, loadVars, appVars, logVars, convVars, besideErr>>

nextTime ==
    LET times == {now + TickLen} \cup {t.due : t \in timers}
    IN  CHOOSE x \in times : \A y \in times : x <= y

Tick ==
    /\ now < MaxTime
    /\ \A t \in timers : t.due > now
    /\ now' = nextTime
    /\ UNCHANGED <<error, known, timers, shownAt, fired>>
    /\ UNCHANGED <<schedVars, ingestVars, loadVars, appVars, logVars, convVars, besideErr>>

NextErr ==
    \/ \E err \in ShowInputs : ShowError(err)
    \/ ClearError
    \/ \E t \in timers : TimerFire(t)
    \/ Tick

SpecErr == Init /\ [][NextErr]_vars

\* --------------------------------------------------------- validateFileSize
\* The function on its own: sizes around both limits, to the byte.
MaxRest == 7

SizeInputs ==
    {bytes(m, r) : m \in {0, RECOMMENDED_MAX_SIZE - 1, RECOMMENDED_MAX_SIZE,
                          RECOMMENDED_MAX_SIZE + 1, MAX_FILE_SIZE - 1,
                          MAX_FILE_SIZE, MAX_FILE_SIZE + 1},
                   r \in (0..MaxRest) \cup {1024 * 1024 - 1}}

\* a file is picked
PickFile(size) ==
    /\ fileSize' = size
    /\ sizeResult' = <<>>
    /\ UNCHANGED <<schedVars, ingestVars, loadVars, appVars, logVars, convVars, besideSize>>

\* validateFileSize(file) is called on it
ValidateSize ==
    /\ sizeResult = <<>>
    /\ sizeResult' = <<validateFileSize(fileSize)>>
    /\ UNCHANGED fileSize
    /\ UNCHANGED <<schedVars, ingestVars, loadVars, appVars, logVars, convVars, besideSize>>

NextSize ==
    \/ \E size \in SizeInputs : PickFile(size)
    \/ ValidateSize

SpecSize == Init /\ [][NextSize]_vars

\* --------------------------------------------------------- validateFileType
HeaderSize == 16

EBML == <<26, 69, 223, 163>>

FTYP == <<102, 116, 121, 112>>

RIFF == <<82, 73, 70, 70>>

AVI == <<65, 86, 73, 32>>

WAVE == <<87, 65, 86, 69>>

ID3 == <<73, 68, 51>>

FLAC == <<102, 76, 97, 67>>

OGGS == <<79, 103, 103, 83>>

SYNC == <<71>>

Zeros == <<0, 0, 0, 0>>

\* check(signature, offset) on the bytes read: a byte past the end is undefined
\* and equals no signature byte
check(head, signature, offset) ==
    \A i \in 1..Len(signature) :
        /\ offset + i <= Len(head)
        /\ head[offset + i] = signature[i]

\* bytes[0] === 0xFF && (bytes[1] & 0xE0) === 0xE0
frameSync(head) ==
    /\ Len(head) >= 2
    /\ head[1] = 255
    /\ (head[2] \div 32) % 8 = 7

\* file.type.startsWith(prefix)
startsWith(s, prefix) ==
    /\ Len(s) >= Len(prefix)
    /\ SubSeq(s, 1, Len(prefix)) = prefix

VideoPrefix == <<"v", "i", "d", "e", "o", "/">>

AudioPrefix == <<"a", "u", "d", "i", "o", "/">>

accepted(format) == [valid |-> TRUE, format |-> format, error |-> NULL]

\* mutant of validateFileType: no fallback to file.type
validateFileTypeStrict(head, type) ==
    IF check(head, FTYP, 4) THEN accepted("mp4/mov")
    ELSE IF check(head, EBML, 0) THEN accepted("webm/mkv")
    ELSE IF check(head, RIFF, 0) /\ check(head, AVI, 8) THEN accepted("avi")
    ELSE IF check(head, SYNC, 0) THEN accepted("mpeg-ts")
    ELSE IF check(head, ID3, 0) \/ frameSync(head) THEN accepted("mp3")
    ELSE IF check(head, RIFF, 0) /\ check(head, WAVE, 8) THEN accepted("wav")
    ELSE IF check(head, FLAC, 0) THEN accepted("flac")
    ELSE IF check(head, OGGS, 0) THEN accepted("ogg")
    ELSE [valid |-> FALSE, format |-> NULL,
          error |-> "Unsupported or invalid file format"]

\* validateFileType(file), the format of the fallback (`${file.type} (inferred)`)
\* being written "(inferred)"
validateFileType(head, type) ==
    IF check(head, FTYP, 4) THEN accepted("mp4/mov")
    ELSE IF check(head, EBML, 0) THEN accepted("webm/mkv")
    ELSE IF check(head, RIFF, 0) /\ check(head, AVI, 8) THEN accepted("avi")
    ELSE IF check(head, SYNC, 0) THEN accepted("mpeg-ts")
    ELSE IF check(head, ID3, 0) \/ frameSync(head) THEN accepted("mp3")
    ELSE IF check(head, RIFF, 0) /\ check(head, WAVE, 8) THEN accepted("wav")
    ELSE IF check(head, FLAC, 0) THEN accepted("flac")
    ELSE IF check(head, OGGS, 0) THEN accepted("ogg")
    ELSE IF startsWith(type, VideoPrefix) \/ startsWith(type, AudioPrefix)
    THEN accepted("(inferred)")
    ELSE [valid |-> FALSE, format |-> NULL,
          error |-> "Unsupported or invalid file format"]

\* the four parts of the headers tried, and the lengths they are cut to
Part1 == {EBML, RIFF, ID3 \o <<3>>, <<255, 251, 144, 0>>, <<255, 0, 0, 0>>,
          FLAC, OGGS, SYNC \o <<64, 0, 16>>, Zeros, <<114, 97, 110, 100>>}

Part2 == {FTYP, Zeros}

Part3 == {AVI, WAVE, Zeros}

HeadLens == {0, 1, 3, 4, 7, 8, 12, HeaderSize}

Headers ==
    {SubSeq(a \o b \o c \o Zeros, 1, n) :
        a \in Part1, b \in Part2, c \in Part3, n \in HeadLens}

FileTypes ==
    {<<>>,
     <<"v", "i", "d", "e", "o", "/", "m", "p", "4">>,
     <<"a", "u", "d", "i", "o", "/", "o", "g", "g">>,
     <<"t", "e", "x", "t", "/", "p", "l", "a", "i", "n">>,
     <<"v", "i", "d", "e", "o">>}

PickMedia(head, type) ==
    /\ fileHead' = head
    /\ fileType' = type
    /\ typeResult' = <<>>
    /\ UNCHANGED <<schedVars, ingestVars, loadVars, appVars, logVars, convVars, besideType>>

\* validateFileType(file) is called on it
ValidateType ==
    /\ typeResult = <<>>
    /\ typeResult' = <<validateFileType(fileHead, fileType)>>
    /\ UNCHANGED <<fileHead, fileType>>
    /\ UNCHANGED <<schedVars, ingestVars, loadVars, appVars, logVars, convVars, besideType>>

NextType ==
    \/ \E head \in Headers, type \in FileTypes : PickMedia(head, type)
    \/ ValidateType

SpecType == Init /\ [][NextType]_vars

\* ------------------------------------------------------ the output extension
\* export type AudioFormat
AudioFormats == {"mp3", "wav", "ogg", "flac", "m4a", "original"}

MaxStreams == 2

\* codec_name values of the probe; NULL stands for a stream without codec_name
CodecNames == {"aac", "mp3", "vorbis", "opus", "flac", "pcm_s16le", "h264", "ac3", NULL}

Streams == [codec_type : {"audio", "video"}, codec_name : CodecNames]

StreamLists == UNION {[1..n -> Streams] : n \in 0..MaxStreams}

\* task.metadata: nothing probed (null), or the probe's streams
Metadatas ==
    {[probed |-> FALSE, streams |-> <<>>]}
        \cup {[probed |-> TRUE, streams |-> s] : s \in StreamLists}

\* const codecMap
codecMap ==
    [c \in {"aac", "mp3", "vorbis", "opus", "flac", "pcm_s16le"} |->
        CASE c = "aac" -> "m4a"
          [] c = "mp3" -> "mp3"
          [] c = "vorbis" -> "ogg"
          [] c = "opus" -> "opus"
          [] c = "flac" -> "flac"
          [] c = "pcm_s16le" -> "wav"]

\* metadata?.streams?.find(s => s.codec_type === 'audio'): the position of the
\* first audio stream, 0 when there is none
findAudio(md) ==
    LET audio == {i \in 1..Len(md.streams) : md.streams[i].codec_type = "audio"}
    IN  IF audio = {} THEN 0 ELSE CHOOSE i \in audio : \A j \in audio : i <= j

\* mutant of getOriginalExtension: the first stream is taken, audio or not
getOriginalExtensionFirst(md) ==
    LET codec == IF Len(md.streams) = 0 \/ md.streams[1].codec_name = NULL
                 THEN "aac"
                 ELSE md.streams[1].codec_name
    IN  IF codec \in DOMAIN codecMap THEN codecMap[codec] ELSE "m4a"

\* getOriginalExtension(metadata)
getOriginalExtension(md) ==
    LET at == findAudio(md)
        codec == IF at = 0 \/ md.streams[at].codec_name = NULL
                 THEN "aac"
                 ELSE md.streams[at].codec_name
    IN  IF codec \in DOMAIN codecMap THEN codecMap[codec] ELSE "m4a"

\* the user selects a format
PickFormat(format) ==
    /\ selectedFormat' = format
    /\ outputExt' = <<>>
    /\ UNCHANGED metadata
    /\ UNCHANGED <<schedVars, ingestVars, loadVars, appVars, logVars, convVars, besideExt>>

\* the probe of the file leaves its result in task.metadata
SetMetadata(md) ==
    /\ metadata' = md
    /\ outputExt' = <<>>
    /\ UNCHANGED selectedFormat
    /\ UNCHANGED <<schedVars, ingestVars, loadVars, appVars, logVars, convVars, besideExt>>

\* extractAudio: const outputExt = task.selectedFormat === 'original'
\*     ? getOriginalExtension(task.metadata) : task.selectedFormat
ComputeExt ==
    /\ outputExt = <<>>
    /\ outputExt' = <<IF selectedFormat = "original"
                      THEN getOriginalExtension(metadata)
                      ELSE selectedFormat>>
    /\ UNCHANGED <<selectedFormat, metadata>>
    /\ UNCHANGED <<schedVars, ingestVars, loadVars, appVars, logVars, convVars, besideExt>>

NextExt ==
    \/ \E format \in AudioFormats : PickFormat(format)
    \/ \E md \in Metadatas : SetMetadata(md)
    \/ ComputeExt

SpecExt == Init /\ [][NextExt]_vars

\* --------------------------------------------- saveFile and readFile, one call
\* One call of opfs.saveFile or opfs.readFile at a time, on a browser that
\* answers each storage operation with success or with an error.  call.passes
\* counts the runs of executeSave or executeRead, call.err is the error on its
\* way to a catch or to the caller, call.first the error that ended the first
\* pass.
Transient == {"NotAllowedError", "SecurityError", "InvalidStateError"}

BrowserErrors == Transient \cup {"NotFoundError", "QuotaExceededError"}

Answers == {"ok"} \cup BrowserErrors

\* this.root!.getFileHandle(...) and the like: on a null root the call itself
\* throws a TypeError, whatever the browser would answer
onRoot(answer) == IF root THEN answer ELSE "TypeError"

\* opfs.saveFile(...), readFile(...), deleteFile(...) or clearAll() is called
CallStart(op) ==
    /\ call.pc \in {"idle", "resolved", "rejected"}
    /\ call' = [op |-> op, pc |-> "init", isRetry |-> FALSE, passes |-> 1,
                err |-> NULL, first |-> NULL]
    /\ UNCHANGED <<root, initPromise>>
    /\ UNCHANGED <<schedVars, ingestVars, loadVars, appVars, logVars, convVars, besideOpfs>>

\* init() as a call runs it, getDirectory succeeding (ok) or failing: returns at
\* once when root or initPromise is set; sets root and keeps initPromise on
\* success; resets initPromise and throws on failure
initStorage(ok) ==
    IF initReturnsAtOnce THEN UNCHANGED <<root, initPromise>>
    ELSE IF ok THEN root' = TRUE /\ initPromise' = "resolved"
    ELSE UNCHANGED <<root, initPromise>>

initThrows(ok) == ~initReturnsAtOnce /\ ~ok

\* if (!this.root) await this.init(), at the head of a pass
EnsureRoot(ok) ==
    /\ call.pc = "init"
    /\ initStorage(ok)
    /\ call' = IF initThrows(ok)
               THEN [call EXCEPT !.pc = "caught", !.err = "Error"]
               ELSE [call EXCEPT !.pc = "open"]
    /\ UNCHANGED <<schedVars, ingestVars, loadVars, appVars, logVars, convVars, besideOpfs>>

\* this.root!.getFileHandle(filename, ...) (and getFile, for a read); for a
\* delete this.root!.removeEntry(filename); for clearAll the loop over
\* this.root!.entries() with its deleteFile calls, an error being whatever the
\* iteration or a deleteFile throws.  In a first pass of saveFile a failure is
\* caught on the spot: this.root = null
GetFileHandle(answer) ==
    /\ call.pc = "open"
    /\ IF onRoot(answer) = "ok"
       THEN /\ call' = [call EXCEPT !.pc = IF call.op = "save" THEN "write" ELSE "resolved"]
            /\ UNCHANGED root
       ELSE IF call.op = "save" /\ ~call.isRetry
       THEN /\ call' = [call EXCEPT !.pc = "reinit"]
            /\ root' = FALSE
       ELSE /\ call' = [call EXCEPT !.pc = "caught", !.err = onRoot(answer)]
            /\ UNCHANGED root
    /\ UNCHANGED initPromise
    /\ UNCHANGED <<schedVars, ingestVars, loadVars, appVars, logVars, convVars, besideOpfs>>

\* await this.init() inside a catch, after this.root = null: then the second
\* getFileHandle of saveFile's first pass, or executeRead(true)
Reinit(ok) ==
    /\ call.pc = "reinit"
    /\ initStorage(ok)
    /\ call' = IF initThrows(ok)
               THEN [call EXCEPT !.pc = IF call.op = "save" THEN "caught" ELSE "rejected",
                                 !.err = "Error"]
               ELSE IF call.op = "save"
               THEN [call EXCEPT !.pc = "reopen"]
               ELSE [call EXCEPT !.pc = "init", !.isRetry = TRUE, !.passes = @ + 1,
                                 !.err = NULL]
    /\ UNCHANGED <<schedVars, ingestVars, loadVars, appVars, logVars, convVars, besideOpfs>>

\* fileHandle = await this.root!.getFileHandle(filename, { create: true }), the
\* second one of saveFile's first pass
Reopen(answer) ==
    /\ call.pc = "reopen"
    /\ call' = IF onRoot(answer) = "ok"
               THEN [call EXCEPT !.pc = "write"]
               ELSE [call EXCEPT !.pc = "caught", !.err = onRoot(answer)]
    /\ UNCHANGED <<root, initPromise>>
    /\ UNCHANGED <<schedVars, ingestVars, loadVars, appVars, logVars, convVars, besideOpfs>>

\* the access handle or the writable stream: open, write, close
WriteData(answer) ==
    /\ call.pc = "write"
    /\ call' = IF answer = "ok"
               THEN [call EXCEPT !.pc = "resolved"]
               ELSE [call EXCEPT !.pc = "caught", !.err = answer]
    /\ UNCHANGED <<root, initPromise>>
    /\ UNCHANGED <<schedVars, ingestVars, loadVars, appVars, logVars, convVars, besideOpfs>>

\* if (!isRetry && (e.name === 'NotAllowedError' || e.name === 'SecurityError'
\*     || e.name === 'InvalidStateError'))
retriesSave(isRetry, name) == ~isRetry /\ name \in Transient

\* if (!isRetry && e.name !== 'NotFoundError')
retriesRead(isRetry, name) == ~isRetry /\ name # "NotFoundError"

\* the catch of executeSave: this.root = null; return executeSave(true), or throw e
CatchSave ==
    /\ call.op = "save"
    /\ call.pc = "caught"
    /\ IF retriesSave(call.isRetry, call.err)
       THEN /\ root' = FALSE
            /\ call' = [call EXCEPT !.pc = "init", !.isRetry = TRUE, !.passes = @ + 1,
                                    !.first = call.err, !.err = NULL]
       ELSE /\ UNCHANGED root
            /\ call' = [call EXCEPT !.pc = "rejected",
                                    !.first = IF call.isRetry THEN @ ELSE call.err]
    /\ UNCHANGED initPromise
    /\ UNCHANGED <<schedVars, ingestVars, loadVars, appVars, logVars, convVars, besideOpfs>>

\* the catch of executeRead: this.root = null; await this.init();
\* return executeRead(true), or throw e
CatchRead ==
    /\ call.op = "read"
    /\ call.pc = "caught"
    /\ IF retriesRead(call.isRetry, call.err)
       THEN /\ root' = FALSE
            /\ call' = [call EXCEPT !.pc = "reinit", !.first = call.err]
       ELSE /\ UNCHANGED root
            /\ call' = [call EXCEPT !.pc = "rejected",
                                    !.first = IF call.isRetry THEN @ ELSE call.err]
    /\ UNCHANGED initPromise
    /\ UNCHANGED <<schedVars, ingestVars, loadVars, appVars, logVars, convVars, besideOpfs>>

\* the catch of executeDelete: NotFoundError returns; a first pass sets
\* this.root = null, awaits init() and runs executeDelete(true); the catch of
\* the second pass ends without a throw, so the call resolves
CatchDelete ==
    /\ call.op = "delete"
    /\ call.pc = "caught"
    /\ IF call.err = "NotFoundError"
       THEN /\ UNCHANGED root
            /\ call' = [call EXCEPT !.pc = "resolved",
                                    !.first = IF call.isRetry THEN @ ELSE call.err]
       ELSE IF ~call.isRetry
       THEN /\ root' = FALSE
            /\ call' = [call EXCEPT !.pc = "reinit", !.first = call.err]
       ELSE /\ UNCHANGED root
            /\ call' = [call EXCEPT !.pc = "resolved"]
    /\ UNCHANGED initPromise
    /\ UNCHANGED <<schedVars, ingestVars, loadVars, appVars, logVars, convVars, besideOpfs>>

\* the catch of clearAll: this.root = null and a console.warn, no throw
CatchClear ==
    /\ call.op = "clear"
    /\ call.pc = "caught"
    /\ root' = FALSE
    /\ call' = [call EXCEPT !.pc = "resolved", !.first = call.err]
    /\ UNCHANGED initPromise
    /\ UNCHANGED <<schedVars, ingestVars, loadVars, appVars, logVars, convVars, besideOpfs>>

StorageOps == {"save", "read", "delete", "clear"}

NextOpfs ==
    \/ \E op \in StorageOps : CallStart(op)
    \/ \E ok \in BOOLEAN : EnsureRoot(ok)
    \/ \E answer \in Answers : GetFileHandle(answer)
    \/ \E ok \in BOOLEAN : Reinit(ok)
    \/ \E answer \in Answers : Reopen(answer)
    \/ \E answer \in Answers : WriteData(answer)
    \/ CatchSave
    \/ CatchRead
    \/ CatchDelete
    \/ CatchClear

SpecOpfs == Init /\ [][NextOpfs]_vars

\* ------------------------------------------------------- init(), many callers
\* Several callers of opfs.init() (the mount effects of ConverterView, of
\* SettingsView and of the batch view, the head of every storage operation)
\* over one OPFSStorage.  attempts[k] is where the k-th run of the body stands:
\* "delay" (navigator.storage missing, waiting 100 ms), "getDirectory" (the
\* request is out), "resolved" or "rejected".  initPromise is "pending" while
\* the run it holds is not settled.
unsettled(k) == attempts[k] \in {"delay", "getDirectory"}

\* a caller gets the outcome of the promise it was handed
settle(c, how, withRoot) ==
    [initCall EXCEPT ![c] = [pc |-> how, rootSeen |-> withRoot]]

\* this.initPromise = (async () => { ... })(): the body runs up to its first
\* await, the 100 ms delay when the storage API is missing, the request for
\* the root directory otherwise
startAttempt(api) ==
    /\ attempts' = Append(attempts, IF api THEN "getDirectory" ELSE "delay")
    /\ requested' = IF api THEN requested + 1 ELSE requested
    /\ current' = Len(attempts) + 1
    /\ initPromise' = "pending"

\* opfs.init() is called by c
InitCalled(c, api) ==
    /\ initCall[c].pc # "awaiting"
    /\ IF root
       THEN /\ initCall' = settle(c, "returned", root)
            /\ UNCHANGED <<initPromise, attempts, current, requested>>
       ELSE IF initReturnsAtOnce
       THEN /\ initCall' = CASE initPromise = "pending" ->
                                    [initCall EXCEPT ![c] = [pc |-> "awaiting", rootSeen |-> FALSE]]
                             [] initPromise = "resolved" -> settle(c, "returned", root)
                             [] OTHER -> settle(c, "threw", root)
            /\ UNCHANGED <<initPromise, attempts, current, requested>>
       ELSE /\ Len(attempts) < MaxAttempts
            /\ startAttempt(api)
            /\ initCall' = [initCall EXCEPT ![c] = [pc |-> "awaiting", rootSeen |-> FALSE]]
    /\ UNCHANGED <<root, call>>
    /\ UNCHANGED <<schedVars, ingestVars, loadVars, appVars, logVars, convVars, besideStorage>>

\* the callers that hold the promise of run k get its outcome
settleAll(k, how, withRoot) ==
    [c \in Callers |->
        IF initCall[c].pc = "awaiting" /\ k = current
        THEN [pc |-> how, rootSeen |-> withRoot]
        ELSE initCall[c]]

\* after the 100 ms: the API is there now and the root directory is requested,
\* or the body throws 'Storage API not available' and initPromise keeps the
\* rejected promise
DelayOver(k, api) ==
    /\ k \in 1..Len(attempts)
    /\ attempts[k] = "delay"
    /\ IF api
       THEN /\ attempts' = [attempts EXCEPT ![k] = "getDirectory"]
            /\ requested' = requested + 1
            /\ UNCHANGED <<initPromise, initCall>>
       ELSE /\ attempts' = [attempts EXCEPT ![k] = "rejected"]
            /\ initPromise' = IF k = current THEN "rejected" ELSE initPromise
            /\ initCall' = settleAll(k, "threw", root)
            /\ UNCHANGED requested
    /\ UNCHANGED <<root, call, current>>
    /\ UNCHANGED <<schedVars, ingestVars, loadVars, appVars, logVars, convVars, besideStorage>>

\* navigator.storage.getDirectory() settles: this.root = the directory, or
\* this.initPromise = null and the body throws 'Failed to initialize storage'
GetDirectorySettles(k, ok) ==
    /\ k \in 1..Len(attempts)
    /\ attempts[k] = "getDirectory"
    /\ IF ok
       THEN /\ root' = TRUE
            /\ attempts' = [attempts EXCEPT ![k] = "resolved"]
            /\ initPromise' = IF k = current THEN "resolved" ELSE initPromise
            /\ initCall' = settleAll(k, "returned", TRUE)
            /\ UNCHANGED current
       ELSE /\ attempts' = [attempts EXCEPT ![k] = "rejected"]
            /\ initPromise' = "null"
            /\ current' = 0
            /\ initCall' = settleAll(k, "threw", root)
            /\ UNCHANGED root
    /\ UNCHANGED <<call, requested>>
    /\ UNCHANGED <<schedVars, ingestVars, loadVars, appVars, logVars, convVars, besideStorage>>

\* this.root = null in the catch of a storage operation that had a root
ResetRoot ==
    /\ root
    /\ root' = FALSE
    /\ UNCHANGED <<initPromise, call, initVars>>
    /\ UNCHANGED <<schedVars, ingestVars, loadVars, appVars, logVars, convVars, besideStorage>>

NextInit ==
    \/ \E c \in Callers, api \in BOOLEAN : InitCalled(c, api)
    \/ \E k \in 1..MaxAttempts, api \in BOOLEAN : DelayOver(k, api)
    \/ \E k \in 1..MaxAttempts, ok \in BOOLEAN : GetDirectorySettles(k, ok)
    \/ ResetRoot

SpecInit == Init /\ [][NextInit]_vars

\* ------------------------------------------------------------------ the probe
\* The metadata probe beside the steps of Spec.  The task fields triggerProbe,
\* isMetadataLoading, metadata and showMetadata are kept in probe[id], and an
\* update of them for an id that is not in the collection changes nothing.
setProbe(id, updates) ==
    IF HasTask(tasks, id) THEN [probe EXCEPT ![id] = Merge(@, updates)] ELSE probe

\* The controls that ask for the metadata.  With one task, ConversionProgress
\* shows its button in 'ready' and disables it while isMetadataLoading; with
\* more, a BatchFileItem has its info button unless the task is done,
\* processing or queued, and a click on the item itself (onActivate) asks for
\* the probe unless the task is done.
canProbe(ts, t) ==
    IF Len(ts) = 1
    THEN t.status = "ready" /\ ~probe[t.id].loading
    ELSE t.status # "done"

\* updateTask(task.id, { triggerProbe: true })
ProbeRequest(id) ==
    /\ HasTask(tasks, id)
    /\ canProbe(tasks, TaskOf(tasks, id))
    /\ ~probe[id].trigger
    /\ probe' = setProbe(id, [trigger |-> TRUE])
    /\ UNCHANGED <<schedVars, ingestVars, loadVars, appVars, logVars, convVars, besideProbe>>

\* mutant of returnsCached: fetchMetadata without its first test
returnsCachedNever(id) == FALSE

\* fetchMetadata: if (task.metadata) { updateTask(task.id, { showMetadata: true }); return; }
returnsCached(id) == probe[id].meta

\* The TaskRunner effect: if (task.status === 'ready' && task.triggerProbe) {
\*   updateTask(task.id, { triggerProbe: false }); fetchMetadata(); }
\* and fetchMetadata up to its first await, opfs.readFile
TaskRunnerProbe(id) ==
    /\ HasTask(tasks, id)
    /\ TaskOf(tasks, id).status = "ready"
    /\ probe[id].trigger
    /\ IF returnsCached(id)
       THEN probe' = setProbe(id, [trigger |-> FALSE, shown |-> TRUE, hit |-> TRUE])
       ELSE /\ probe[id].started < MaxProbes
            /\ probe' = setProbe(id, [trigger |-> FALSE, loading |-> TRUE,
                                      reading |-> probe[id].reading + 1,
                                      started |-> probe[id].started + 1])
    /\ UNCHANGED <<schedVars, ingestVars, loadVars, appVars, logVars, convVars, besideProbe>>

\* a run ends: finally { ...; updateTask(task.id, { isMetadataLoading: false }) },
\* after updateTask(task.id, { metadata, showMetadata: true }) when it got the metadata
probeEnd(id, phase, gotMetadata) ==
    [probe EXCEPT ![id] =
        [Merge(@, IF ~HasTask(tasks, id) THEN <<>>
                  ELSE IF gotMetadata THEN [meta |-> TRUE, shown |-> TRUE, loading |-> FALSE]
                  ELSE [loading |-> FALSE])
         EXCEPT ![phase] = probe[id][phase] - 1]]

\* opfs.readFile settles.  With the file and a loaded engine the run goes on to
\* its engine commands (writeFile, appendFile, ffprobe); without the file, or
\* on an engine that is not loaded (its first command throws at once), it ends
\* in the catch
ProbeRead(id) ==
    /\ probe[id].reading > 0
    /\ IF ingest[id] = "saved" /\ engine[id] = "loaded"
       THEN probe' = [probe EXCEPT ![id].reading = @ - 1, ![id].engine = @ + 1]
       ELSE probe' = probeEnd(id, "reading", FALSE)
    /\ UNCHANGED <<schedVars, ingestVars, loadVars, appVars, logVars, convVars, besideProbe>>

\* ffprobe returned and its output was read
ProbeSucceed(id) ==
    /\ probe[id].engine > 0
    /\ probe' = probeEnd(id, "engine", TRUE)
    /\ UNCHANGED <<schedVars, ingestVars, loadVars, appVars, logVars, convVars, besideProbe>>

\* an engine command of the run threw
ProbeFail(id) ==
    /\ probe[id].engine > 0
    /\ probe' = probeEnd(id, "engine", FALSE)
    /\ UNCHANGED <<schedVars, ingestVars, loadVars, appVars, logVars, convVars, besideProbe>>

NextProbe ==
    \/ AddTask
    \/ \E id \in Ids : RemoveTask(id)
    \/ \E id \in Ids : IngestSucceed(id)
    \/ \E id \in Ids : LoadSucceed(id)
    \/ OnExtract
    \/ StartAll
    \/ Admit
    \/ \E id \in Ids : TaskRunnerExtract(id)
    \/ \E id \in Ids : ExtractSucceed(id)
    \/ \E id \in Ids : ProbeRequest(id)
    \/ \E id \in Ids : TaskRunnerProbe(id)
    \/ \E id \in Ids : ProbeRead(id)
    \/ \E id \in Ids : ProbeSucceed(id)
    \/ \E id \in Ids : ProbeFail(id)

SpecProbe == Init /\ [][NextProbe]_vars

\* --------------------------------------------------------------- activeTaskId
\* The active task beside the steps of Spec.
\* addTask: setActiveTaskId(prev => prev ? prev : id)
activeAfterAdd(prev, id) == IF prev # NoTask THEN prev ELSE id

AddTaskActive ==
    /\ nextId <= MaxTasks
    /\ tasks' = Append(tasks, newTask(nextId))
    /\ activeTaskId' = activeAfterAdd(activeTaskId, nextId)
    /\ nextId' = nextId + 1
    /\ ingest' = [ingest EXCEPT ![nextId] = "running"]
    /\ engine' = [engine EXCEPT ![nextId] = "loading"]
    /\ qorder' = NextQOrder(qorder, tasks')
    /\ globalStatus' = "processing"
    /\ UNCHANGED <<maxConcurrency, runs, stale, initRun, alert, supported>>
    /\ UNCHANGED <<ingestVars, loadVars, besideActive, logVars, convVars>>

\* mutant of activeAfterRemove: the active task is never replaced
activeAfterRemoveKept(active, closed, filtered, taskId) ==
    IF Len(filtered) = 0 THEN NoTask ELSE active

\* removeTask, inside the updater of setTasks, filtered being
\* prev.filter(t => t.id !== taskId) and closed the activeTaskId the callback
\* was created with:
\*   if (filtered.length === 0) { ...; setActiveTaskId(null); }
\*   else if (activeTaskId === taskId) setActiveTaskId(filtered[0]?.id || null);
activeAfterRemove(active, closed, filtered, taskId) ==
    IF Len(filtered) = 0 THEN NoTask
    ELSE IF closed = taskId THEN filtered[1].id
    ELSE active

\* removeTask(id) from a rendered X button: the callback of the last render,
\* created with the committed activeTaskId
RemoveTaskActive(id) ==
    /\ HasTask(tasks, id)
    /\ tasks' = removeTaskFrom(tasks, id)
    /\ activeTaskId' = activeAfterRemove(activeTaskId, activeTaskId, tasks', id)
    /\ qorder' = NextQOrder(qorder, tasks')
    /\ globalStatus' = statusAfterRemove(globalStatus, tasks')
    /\ UNCHANGED <<maxConcurrency, nextId, ingest, engine, runs, stale>>
    /\ UNCHANGED <<initRun, alert, supported>>
    /\ UNCHANGED <<ingestVars, loadVars, besideActive, logVars, convVars>>

\* handleClearAll: every removeTask of the forEach is the same callback, created
\* with the activeTaskId of the render (closed); the updaters run in order,
\* each on the collection the one before it left
RECURSIVE activeAfterClearAll(_, _, _, _, _)
activeAfterClearAll(ts, active, closed, snapshot, i) ==
    IF i > Len(snapshot) THEN active
    ELSE IF snapshot[i].status = "processing"
    THEN activeAfterClearAll(ts, active, closed, snapshot, i + 1)
    ELSE activeAfterClearAll(removeTaskFrom(ts, snapshot[i].id),
                             activeAfterRemove(active, closed,
                                               removeTaskFrom(ts, snapshot[i].id),
                                               snapshot[i].id),
                             closed, snapshot, i + 1)

ClearAllActive ==
    /\ batchEnabled(tasks)
    /\ tasks' = handleClearAll(tasks)
    /\ activeTaskId' = activeAfterClearAll(tasks, activeTaskId, activeTaskId, tasks, 1)
    /\ qorder' = NextQOrder(qorder, tasks')
    /\ globalStatus' = statusAfterRemove(globalStatus, tasks')
    /\ UNCHANGED <<maxConcurrency, nextId, ingest, engine, runs, stale>>
    /\ UNCHANGED <<initRun, alert, supported>>
    /\ UNCHANGED <<ingestVars, loadVars, besideActive, logVars, convVars>>

\* onActivate of a BatchFileItem:
\* setActiveTaskId(activeTaskId === task.id ? null : task.id)
SetActiveTaskId(id) ==
    /\ HasTask(tasks, id)
    /\ activeTaskId' = IF activeTaskId = id THEN NoTask ELSE id
    /\ UNCHANGED <<schedVars, ingestVars, loadVars, appVars, logVars, convVars, besideActive>>

NextActive ==
    \/ AddTaskActive
    \/ \E id \in Ids : RemoveTaskActive(id)
    \/ ClearAllActive
    \/ \E id \in Ids : SetActiveTaskId(id)
    \/ \E id \in Ids : IngestSucceed(id)
    \/ \E id \in Ids : LoadSucceed(id)
    \/ OnExtract
    \/ StartAll
    \/ Admit
    \/ \E id \in Ids : TaskRunnerExtract(id)
    \/ \E id \in Ids : ExtractSucceed(id)

SpecActive == Init /\ [][NextActive]_vars

\* ------------------------------------------------------------------ claims
Removed(id) == id < nextId /\ ~HasTask(tasks, id)

\* C1 (as stated): in every reachable state the number of 'processing' tasks is
\* at most the current maxConcurrency.
C1_CountWithinLimit == processingCount(tasks) <= maxConcurrency

\* C1 (amended): only lowering the limit can take the number of 'processing'
\* tasks above maxConcurrency; every other step, admissions included, that starts
\* with the count within the limit ends with the count within the limit.
C1_OnlyLoweringExceeds ==
    [][(processingCount(tasks) <= maxConcurrency /\ maxConcurrency' >= maxConcurrency)
        => processingCount(tasks') <= maxConcurrency']_vars

\* a full house: every slot is taken and a queued task is waiting
C1_Witness ==
    /\ processingCount(tasks) = maxConcurrency
    /\ Len(queuedTasks(tasks)) > 0

\* C2: the task an admission moves from 'queued' to 'processing' is the one that
\* entered 'queued' first among those still queued (with A, B, C queued in this
\* order and limit 1, B follows A, never C).
C2_Fifo ==
    [][\A id \in Ids :
        (StatusOf(tasks, id) = "queued" /\ StatusOf(tasks', id) = "processing")
            => id = Head(qorder)]_vars

\* A has finished, B holds the only slot, C is still queued
C2_Witness ==
    /\ maxConcurrency = 1
    /\ StatusOf(tasks, 1) = "done"
    /\ StatusOf(tasks, 2) = "processing"
    /\ StatusOf(tasks, 3) = "queued"

\* C3 (as stated): a task that is 'done' or 'error' keeps that status until it is
\* removed.
C3_TerminalStatesStay ==
    [][\A id \in Ids :
        StatusOf(tasks, id) \in {"done", "error"}
            => StatusOf(tasks', id) \in {StatusOf(tasks, id), "absent"}]_vars

\* the status changes the state machine allows
AllowedTransitions ==
    {<<"reading", "ready">>, <<"ready", "queued">>, <<"queued", "processing">>,
     <<"processing", "done">>, <<"reading", "error">>, <<"queued", "error">>,
     <<"processing", "error">>}

\* C4 (as stated): every change of a task's status is one of the allowed
\* transitions.
C4_OnlyAllowedTransitions ==
    [][\A id \in Ids :
        (HasTask(tasks, id) /\ HasTask(tasks', id)
         /\ StatusOf(tasks, id) # StatusOf(tasks', id))
            => <<StatusOf(tasks, id), StatusOf(tasks', id)>> \in AllowedTransitions]_vars

\* task id is in the collection with the one-shot flag waiting for the effect
Pending(ts, id) == HasTask(ts, id) /\ shouldExtract(TaskOf(ts, id))

Callback(id) ==
    \/ IngestSucceed(id)
    \/ IngestFail(id)
    \/ LoadSucceed(id)
    \/ LoadFail(id)
    \/ ExtractSucceed(id)
    \/ ExtractFail(id)

\* C7: a removed id never comes back, and a callback of a removed task's
\* routines leaves the collection as it is.
C7_RemovalFinal ==
    [][\A id \in Ids :
        Removed(id) => /\ ~HasTask(tasks', id)
                       /\ Callback(id) => tasks' = tasks]_vars

\* a routine of a removed task has called back
C7_Witness == stale /\ \E id \in Ids : Removed(id) /\ ingest[id] # "running"

\* the fatal errors of task id
Failure(id) == IngestFail(id) \/ LoadFail(id) \/ ExtractFail(id)

OwnKey(id) == <<"input_", id, ".mp4">>

\* the step is one of task id's own (its save, its ingest result or its read)
ActsOn(id) == save'[id] # save[id] \/ ingest'[id] # ingest[id] \/ got'[id] # got[id]

\* C9: a step of a task changes the store only under input_<id>.mp4; what a task
\* reads back consists of its own bytes only; and a task whose ingest succeeded
\* has exactly its own file content under its key, however the chunk writes of
\* the tasks interleave.
C9_KeyIsolation ==
    [][/\ \A f \in DOMAIN store :
            store'[f] # store[f] => \E id \in Ids : ActsOn(id) /\ f = OwnKey(id)
       /\ \A id \in Ids :
            /\ got'[id] # NoFile => \A k \in DOMAIN got'[id] : got'[id][k][1] = id
            /\ ingest'[id] = "saved"
                => (OwnKey(id) \in DOMAIN store' /\ store'[OwnKey(id)] = fileOf(id))]_vars

\* two saves under way at once, each with a chunk written and its handle open,
\* next to a reader
C9_Witness ==
    /\ save[1].pc = "locked" /\ save[1].offset = 1
    /\ save[2].pc = "locked" /\ save[2].offset = 1
    /\ ingest[1] = "running" /\ ingest[2] = "running"
    /\ got[2] = <<fileOf(2)[1]>>

\* C10 (as stated): while no attempt has failed, the engine binary is fetched
\* from the network at most once and written to the cache at most once, however
\* many tasks load their engine.
C10_SingleFetch ==
    (\A id \in Ids : load[id].attempt = 1) => (fetchCount <= 1 /\ putCount <= 1)

\* load operations of the task's engine handle that are under way: the attempt
\* the loop is waiting for, and the timed-out attempts that have not ended
inFlight(id) ==
    (IF engine[id] = "loading" /\ load[id].pc \in Running THEN 1 ELSE 0)
    + Cardinality({a \in 1..retries : orphan[id][a] \in Running})

\* C11 (as stated): for each engine handle at most one load attempt is in flight
\* at any time; a retry after a timed-out attempt does not start a second one.
C11_OneLoadInFlight == \A id \in Ids : inFlight(id) <= 1

\* C12: an engine load makes at most 3 attempts, one after the other, and stops
\* at the first success; it gives up only when the third attempt has failed, a
\* timeout counting like any other failure, and then the task is set to 'error'
\* with a message; once the load has succeeded or given up, no attempt follows.
C12_ThreeAttemptsThenError ==
    [][\A id \in Ids :
        /\ load'[id].attempt <= 3
        /\ load'[id].attempt \in {load[id].attempt, load[id].attempt + 1}
        /\ engine[id] \in {"loaded", "failed"}
            => (load'[id] = load[id] /\ engine'[id] = engine[id])
        /\ (engine[id] = "loading" /\ engine'[id] = "loaded")
            => load[id].pc = "load"
        /\ (engine[id] = "loading" /\ engine'[id] = "failed")
            => /\ load[id].attempt = 3
               /\ HasTask(tasks, id)
                   => /\ StatusOf(tasks', id) = "error"
                      /\ TaskOf(tasks', id).errorMessage # NULL]_vars

\* three attempts, each lost to the timeout: the load has given up and the task
\* shows the error
C12_Witness ==
    \E id \in Ids :
        /\ engine[id] = "failed"
        /\ load[id].attempt = 3
        /\ \A a \in 1..3 : orphan[id][a] # "none"
        /\ StatusOf(tasks, id) = "error"
        /\ TaskOf(tasks, id).errorMessage # NULL

\* C13: a step that changes maxConcurrency changes no task (a 'processing' task
\* stays 'processing'), and a 'queued' task becomes 'processing' only in a step
\* that starts with fewer 'processing' tasks than the limit then in force.
C13_NoPreemption ==
    [][/\ maxConcurrency' # maxConcurrency => tasks' = tasks
       /\ \A i \in DOMAIN tasks :
            (tasks[i].status = "queued" /\ StatusOf(tasks', tasks[i].id) = "processing")
                => processingCount(tasks) < maxConcurrency]_vars

\* the limit was lowered under running conversions: more tasks are 'processing'
\* than the limit allows, none was stopped
C13_Witness == processingCount(tasks) > maxConcurrency

\* C14 (as stated): while a task is 'processing' its progress never decreases
\* from one update to the next, and every step that takes the task into
\* 'processing' leaves its progress at 0.
C14_ProgressMonotone ==
    [][\A id \in Ids :
        (HasTask(tasks, id) /\ HasTask(tasks', id))
            => /\ (StatusOf(tasks, id) = "processing" /\ StatusOf(tasks', id) = "processing")
                    => progress'[id] >= progress[id]
               /\ (StatusOf(tasks, id) # "processing" /\ StatusOf(tasks', id) = "processing")
                    => progress'[id] = 0]_vars

\* C15 (as stated): addTask on a file that fails validation, its size above the
\* maximum or its format unsupported, leaves the task collection unchanged and
\* surfaces the validation error.
C15_InvalidFileNoTask ==
    [][\A size \in FileSizes, video \in BOOLEAN :
        (AddFile(size, video) /\ (larger(size, MAX_FILE_SIZE) \/ ~video))
            => (tasks' = tasks /\ alert' # NULL)]_vars

IsProcessing(t) == t.status = "processing"

\* C16: startAll keeps every task in its place, moves every task whose status is
\* 'ready' to 'queued' and leaves the status of every other task as it is.
C16_StartAllQueuesReady ==
    [][onStartAll =>
        /\ Len(tasks') = Len(tasks)
        /\ \A i \in DOMAIN tasks :
            /\ tasks'[i].id = tasks[i].id
            /\ tasks'[i].status =
                   IF tasks[i].status = "ready" THEN "queued" ELSE tasks[i].status]_vars

\* startAll has acted on a 'ready' task 1, a 'queued' task 2 and a 'processing'
\* task 3: task 1 is queued behind task 2, the others are as they were
C16_Witness ==
    /\ Len(tasks) = 3
    /\ qorder = <<2, 1>>
    /\ tasks[1].status = "queued"
    /\ tasks[2].status = "queued"
    /\ tasks[3].status = "processing"

\* C17: clearAll removes every task that is not 'processing' and keeps every
\* task that is, in its place among those kept.
C17_ClearAllKeepsProcessing ==
    [][onClearAll => tasks' = SelectSeq(tasks, IsProcessing)]_vars

\* clearAll has acted on a collection of three: the one 'processing' task is
\* what is left
C17_Witness ==
    /\ nextId = 4
    /\ Len(tasks) = 1
    /\ tasks[1].status = "processing"

\* C18 (as stated): while the task collection is non-empty globalStatus is
\* 'processing', wherever the initialization routine stands; once tasks have been
\* added and the collection has been emptied again it is 'idle'.
C18_ProcessingWhileTasks ==
    /\ Len(tasks) > 0 => globalStatus = "processing"
    /\ (Len(tasks) = 0 /\ nextId > 1) => globalStatus = "idle"

\* the log holds the entries numbered up to n that it has room for, oldest first
Recent(log, n) == \A i \in 1..Len(log) : log[i] = n - Len(log) + i

Min(a, b) == IF a < b THEN a ELSE b

\* C19: after any sequence of addLog calls the log of a task holds its most
\* recent entries, all of them up to 200 and never more, and the global log
\* holds at most 500 entries, the most recent ones; both in the order the
\* entries were generated.
C19_LogsBounded ==
    /\ Len(globalLogs) <= 500
    /\ Recent(globalLogs, totalSent)
    /\ \A id \in Ids :
        /\ Len(taskLogs[id]) = Min(sent[id], 200)
        /\ Recent(taskLogs[id], sent[id])

\* both logs are full and have dropped their oldest entries
C19_Witness ==
    \E id \in Ids :
        /\ Len(taskLogs[id]) = 200
        /\ taskLogs[id][1] > 1
        /\ Len(globalLogs) = 500
        /\ globalLogs[1] > 1

\* C20: an exec that ends with a non-zero exit code leaves the task in 'error'
\* with a message that names the exit code, and from then on extractAudio is not
\* invoked for that task until the user queues it again.
C20_ExitCodeIsFinal ==
    [][\A id \in Ids :
        /\ \A ret \in ExecResults :
            (ExtractExit(id, ret) /\ HasTask(tasks, id))
                => /\ StatusOf(tasks', id) = "error"
                   /\ TaskOf(tasks', id).errorMessage
                          = "FFmpeg exited with code " \o ToString(ret)
        /\ exited[id] => runs'[id] <= runs[id]]_vars

\* the exec of a task ended with exit code -1 and the task shows it
C20_Witness ==
    \E id \in Ids :
        /\ exited[id]
        /\ StatusOf(tasks, id) = "error"
        /\ TaskOf(tasks, id).errorMessage = "FFmpeg exited with code -1"

\* C21 (as stated): once a task has been removed, or has finished with its
\* cleanup done, its input file is no longer in the persistent store.
C21_FileGoneAfterRemoval ==
    \A id \in Ids :
        (Removed(id) \/ (StatusOf(tasks, id) = "done" /\ runs[id] = 0))
            => store[inputFilename(id)] = NoFile

\* C22 (as stated): a task leaves 'reading' only in the step in which its
\* ingest resolves, to 'ready' when the save succeeded and to 'error' with a
\* message when it failed.
C22_LeavesReadingByIngest ==
    [][\A id \in Ids :
        (HasTask(tasks, id) /\ HasTask(tasks', id)
         /\ StatusOf(tasks, id) = "reading" /\ StatusOf(tasks', id) # "reading")
            => /\ ingest[id] = "running"
               /\ ingest'[id] \in {"saved", "failed"}
               /\ ingest'[id] = "saved" => StatusOf(tasks', id) = "ready"
               /\ ingest'[id] = "failed"
                   => /\ StatusOf(tasks', id) = "error"
                      /\ TaskOf(tasks', id).errorMessage # NULL]_vars

\* C23 (as stated): a task whose status is 'done' has progress 100.
C23_DoneHasFullProgress ==
    \A id \in Ids :
        (HasTask(tasks, id) /\ StatusOf(tasks, id) = "done") => progress[id] = 100

\* C24 (as stated): once the hook of a task has unmounted, every blob URL it
\* created through createBlobUrl is revoked.
C24_UrlsRevokedAfterUnmount ==
    \A id \in Ids : cleaned[id] => (1..made[id]) \subseteq revoked[id]

\* C25: a displayed recoverable error is gone 8 seconds after it was shown at the
\* latest; a timer clears the display only when the displayed error is the one
\* the timer was set for, which is recoverable and was shown at least 8 seconds
\* before (the timer of an earlier error leaves a later error displayed); a
\* non-recoverable error is never cleared by a timer.
C25_AutoClearOwnErrorOnly ==
    /\ [](error # NULL /\ known[error] = "rec" => now <= shownAt + autoClearDelay)
    /\ [][(timers' # timers /\ timers' \subseteq timers /\ error # NULL)
            => /\ error' # error
                   => \E t \in timers \ timers' :
                        /\ t.id = error
                        /\ t.due <= now
                        /\ known[error] = "rec"
               /\ known[error] = "fatal" => error' = error]_vars

\* C25 witness: the timer of an earlier error has run, and the later recoverable
\* error is still displayed, its own timer pending.
C25_Witness ==
    /\ error # NULL
    /\ known[error] = "rec"
    /\ fired # {}
    /\ error \notin fired
    /\ \E t \in timers : t.id = error /\ t.due > now
    /\ now >= autoClearDelay

noSignature(head) ==
    /\ ~check(head, FTYP, 4)
    /\ ~check(head, EBML, 0)
    /\ ~(check(head, RIFF, 0) /\ (check(head, AVI, 8) \/ check(head, WAVE, 8)))
    /\ ~check(head, SYNC, 0)
    /\ ~check(head, ID3, 0)
    /\ ~frameSync(head)
    /\ ~check(head, FLAC, 0)
    /\ ~check(head, OGGS, 0)

isMedia(type) == startsWith(type, VideoPrefix) \/ startsWith(type, AudioPrefix)

\* what both statements of C27 say of a header without signature: accepted
\* exactly when file.type starts with video/ or audio/, rejected with an error
\* otherwise
fallbackRule ==
    (typeResult # <<>> /\ noSignature(fileHead))
        => /\ typeResult[1].valid = isMedia(fileType)
           /\ ~typeResult[1].valid => typeResult[1].error # NULL

\* C27 (as stated): a header with 1A 45 DF A3 at offset 0 is recognized as
\* 'webm/mkv', one with 'ftyp' at offset 4 as 'mp4/mov', and a header without
\* known signature is accepted only on a video/ or audio/ type.
C27_AsStated ==
    /\ (typeResult # <<>> /\ check(fileHead, EBML, 0))
        => (typeResult[1].valid /\ typeResult[1].format = "webm/mkv")
    /\ (typeResult # <<>> /\ check(fileHead, FTYP, 4))
        => (typeResult[1].valid /\ typeResult[1].format = "mp4/mov")
    /\ fallbackRule

\* C27 (amended): a header with 'ftyp' at offset 4 is recognized as 'mp4/mov';
\* one with 1A 45 DF A3 at offset 0 and no 'ftyp' at offset 4 as 'webm/mkv'; a
\* header without known signature is accepted only on a video/ or audio/ type.
C27_FtypFirst ==
    /\ (typeResult # <<>> /\ check(fileHead, EBML, 0) /\ ~check(fileHead, FTYP, 4))
        => (typeResult[1].valid /\ typeResult[1].format = "webm/mkv")
    /\ (typeResult # <<>> /\ check(fileHead, FTYP, 4))
        => (typeResult[1].valid /\ typeResult[1].format = "mp4/mov")
    /\ fallbackRule

\* C27 witness: an all-zero header of type text/plain was validated and rejected.
C27_Witness ==
    /\ fileHead = Zeros \o Zeros \o Zeros \o Zeros
    /\ fileType = <<"t", "e", "x", "t", "/", "p", "l", "a", "i", "n">>
    /\ typeResult # <<>>
    /\ ~typeResult[1].valid

\* the codec the probe reports for the audio of the file: the codec_name of the
\* first audio stream
probedCodec == metadata.streams[findAudio(metadata)].codec_name

\* C28: in 'original' mode the extension follows the probed audio codec (aac
\* m4a, mp3 mp3, vorbis ogg, opus opus, flac flac, pcm_s16le wav, any other codec
\* m4a); for every other selected format it is the selected format.
C28_ExtensionOfCodec ==
    outputExt # <<>> =>
        IF selectedFormat = "original"
        THEN findAudio(metadata) # 0 =>
                outputExt[1] =
                    CASE probedCodec = "aac" -> "m4a"
                      [] probedCodec = "mp3" -> "mp3"
                      [] probedCodec = "vorbis" -> "ogg"
                      [] probedCodec = "opus" -> "opus"
                      [] probedCodec = "flac" -> "flac"
                      [] probedCodec = "pcm_s16le" -> "wav"
                      [] OTHER -> "m4a"
        ELSE outputExt[1] = selectedFormat

\* C28 witness: passthrough of a file whose audio, the second stream, is
\* pcm_s16le got the extension wav.
C28_Witness ==
    /\ selectedFormat = "original"
    /\ Len(metadata.streams) = 2
    /\ metadata.streams[1].codec_type = "video"
    /\ findAudio(metadata) = 2
    /\ probedCodec = "pcm_s16le"
    /\ outputExt = <<"wav">>

\* C29 (as stated): a save whose first pass ends in a transient error runs a
\* second pass, once, on a reinitialized root (the root is a handle when the
\* second pass opens the file); any other error, and an error of the second
\* pass, goes to the caller; there is no third pass.
C29_SaveRetriesOnNewRoot ==
    call.op = "save" =>
        /\ call.passes <= 2
        /\ (call.first \in Transient /\ call.pc # "caught") => call.passes = 2
        /\ (call.first # NULL /\ call.first \notin Transient) => call.passes = 1
        /\ (call.isRetry /\ call.pc = "caught") => call.err # NULL
        /\ (call.isRetry /\ call.pc = "open") => root

\* C30 (as stated): a read that finds no file fails with NotFoundError in its
\* first pass; a read whose first pass ends in another error runs a second
\* pass, once, on a reinitialized root; an error of the second pass goes to the
\* caller.
C30_ReadRetriesOnNewRoot ==
    call.op = "read" =>
        /\ call.passes <= 2
        /\ call.first = "NotFoundError" => (call.passes = 1 /\ call.pc = "rejected")
        /\ (call.first \notin {NULL, "NotFoundError"} /\ call.pc \in {"init", "open", "resolved"})
            => call.passes = 2
        /\ (call.isRetry /\ call.pc = "caught") => call.err # NULL
        /\ (call.isRetry /\ call.pc = "open") => root

\* C31: init() is idempotent and deduplicated.  At most one run of its body
\* is unsettled at any time, every caller that waits holds the promise of that
\* run, the root directory is requested at most once per run, and a call on a
\* store that has its root changes nothing of the store.
sharedAttempt ==
    /\ Cardinality({k \in 1..Len(attempts) : unsettled(k)}) <= 1
    /\ requested <= Len(attempts)
    /\ \A c \in Callers :
           initCall[c].pc = "awaiting" => (current # 0 /\ unsettled(current))

nothingOnRoot ==
    (root /\ initCall' # initCall)
        => UNCHANGED <<root, initPromise, attempts, current, requested>>

C31_InitSharedAndIdempotent == []sharedAttempt /\ [][nothingOnRoot]_vars

\* C31 witness: two callers wait on the one run of the body, whose request for
\* the root directory is out
C31_Witness ==
    /\ \E c, d \in Callers :
           c # d /\ initCall[c].pc = "awaiting" /\ initCall[d].pc = "awaiting"
    /\ requested = 1
    /\ attempts = <<"getDirectory">>

\* C37: whenever init() resolves, the store has its root: no caller gets a
\* resolved init() while root is null.
C37_ResolvedInitHasRoot ==
    \A c \in Callers : initCall[c].pc = "returned" => initCall[c].rootSeen

\* C32: save, read and delete propagate an error when the call still fails
\* after its retry, and clearAll never throws: a call of the first three whose
\* second pass ended in an error (other than a delete finding no entry) is not
\* resolved, and a clearAll is never rejected.
C32_ErrorsPropagateButClearAll ==
    /\ (/\ call.op \in {"save", "read", "delete"}
        /\ call.isRetry
        /\ call.err # NULL
        /\ ~(call.op = "delete" /\ call.err = "NotFoundError"))
           => call.pc # "resolved"
    /\ call.op = "clear" => call.pc # "rejected"

\* C33: the probe is idempotent.  Once metadata is attached to a task it stays
\* attached and no fetchMetadata call of the task goes past the metadata test
\* any more (no new run asks the engine), and a request handled by the
\* TaskRunner effect from then on only shows the attached metadata.
probeCached(id) ==
    probe[id].meta =>
        /\ probe'[id].meta
        /\ probe'[id].started = probe[id].started
        /\ (probe[id].trigger /\ ~probe'[id].trigger) => probe'[id].shown

C33_ProbeIdempotent == [][\A id \in Ids : probeCached(id)]_vars

\* C33 witness: a request made for a task with metadata was answered from it,
\* after the one run that had asked the engine
C33_Witness ==
    \E id \in Ids :
        /\ probe[id].hit /\ probe[id].meta /\ probe[id].shown
        /\ probe[id].started = 1 /\ probe[id].reading = 0 /\ probe[id].engine = 0

\* C38: at most one engine command is in flight on a task's engine: no two
\* fetchMetadata runs of a task hold an engine command together, and none does
\* while an extraction of the task is in flight.
C38_OneEngineCommand ==
    \A id \in Ids :
        /\ probe[id].engine <= 1
        /\ probe[id].engine = 1 => runs[id] = 0

\* C34: admission is work-conserving.  With maxConcurrency >= 1, a queued
\* task and a free slot never stay together forever: an admission takes them
\* (or the user withdraws the task or the slot); and whenever no admission is
\* possible, no task is queued or maxConcurrency tasks at least are processing.
workAvailable ==
    /\ maxConcurrency >= 1
    /\ \E i \in DOMAIN tasks : tasks[i].status = "queued"
    /\ processingCount(tasks) < maxConcurrency

C34_WorkConserving ==
    /\ workAvailable ~> ~workAvailable
    /\ [](~(ENABLED Admit) => ~workAvailable)

\* C34 witness: one task has been admitted, another is still queued and a
\* slot is free: the evaluation that admitted the first left the second
C34_Witness ==
    /\ workAvailable
    /\ processingCount(tasks) = 1
    /\ Len(tasks) = 2

\* C35: an admission takes the queued task that stands earliest in the
\* collection, whatever the order in which the tasks entered 'queued': when a
\* task goes from 'queued' to 'processing', no task before it in the
\* collection was queued.
admitsEarliest ==
    \A i \in DOMAIN tasks :
        (tasks[i].status = "queued" /\ StatusOf(tasks', tasks[i].id) = "processing")
            => \A j \in 1..(i - 1) : tasks[j].status # "queued"

C35_AdmitsEarliestInCollection == [][admitsEarliest]_vars

\* C35 witness: the first task of the collection has just been admitted
\* while two later tasks wait, the third of which was queued before the second
C35_Witness ==
    /\ Len(tasks) = 3
    /\ tasks[1].status = "processing" /\ tasks[1].triggerExtract
    /\ qorder = <<3, 2>>

\* C36: extractAudio is only started on an engine that has finished loading:
\* while an extraction of a task is in flight, the task's engine is loaded (a
\* loaded engine stays loaded, so a run never started on one that was not).
C36_ExtractOnLoadedEngine ==
    \A id \in Ids : runs[id] > 0 => engine[id] = "loaded"

\* C39: activeTaskId is null or the id of a task of the collection, in every
\* state reached by addTask, removeTask, clearAll and setActiveTaskId on
\* existing tasks.
C39_ActiveTaskExists ==
    activeTaskId = NoTask \/ HasTask(tasks, activeTaskId)

\* C39 witness: the active task was removed and the task after it took its
\* place: the first task added is gone, the second is the active one
C39_Witness ==
    /\ nextId = 3
    /\ TaskIds(tasks) = {2}
    /\ activeTaskId = 2

====
